---- MODULE Spec2Model ----
(***************************************************************************)
(* Model of the bt-cpp behavior tree engine (include/bt/behavior_tree.hpp): *)
(* the Node dispatch engine (Tick per node type, Reset), the validation of  *)
(* a node and of a subtree (Validate, ValidateTree), and the BehaviorTree   *)
(* manager (ValidateTree, Tick, Reset).                                     *)
(*                                                                          *)
(* Nodes live in an arena addressed by small integers; a child reference is *)
(* a node id or NULL.  One Tick of the tree is one action: the recursive    *)
(* dispatch is computed by the operator Tick, which threads the arena and   *)
(* a trace of what the dispatch did (node ticks, callback invocations and   *)
(* returns).  The status a user's leaf callback returns is an input: every  *)
(* invocation may return any Status, so Tick yields the set of all          *)
(* outcomes of the dispatch and the action takes one of them.               *)
(***************************************************************************)
EXTENDS Integers, Sequences, FiniteSets, TLC

\* ------------------------------------------------------------------------
\* Bounds of the model
\* ------------------------------------------------------------------------
MaxRootKids == 2    \* most children attached to the root
MaxTicks == 3       \* BehaviorTree::Tick() calls explored

\* ------------------------------------------------------------------------
\* Vocabulary: Status, NodeType, ParallelPolicy
\* ------------------------------------------------------------------------
kSuccess == "kSuccess"
kFailure == "kFailure"
kRunning == "kRunning"
kError == "kError"
Status == {kSuccess, kFailure, kRunning, kError}

kAction == "kAction"
kCondition == "kCondition"
kSequence == "kSequence"
kSelector == "kSelector"
kParallel == "kParallel"
kInverter == "kInverter"
NodeType == {kAction, kCondition, kSequence, kSelector, kParallel, kInverter}

kRequireAll == "kRequireAll"
kRequireOne == "kRequireOne"
ParallelPolicy == {kRequireAll, kRequireOne}

IsLeafType(t) == (t = kAction) \/ (t = kCondition)

IsCompositeType(t) == (t = kSequence) \/ (t = kSelector) \/ (t = kParallel)

kNone == "kNone"
kLeafMissingTick == "kLeafMissingTick"
kInverterNotOneChild == "kInverterNotOneChild"
kParallelExceedsBitmap == "kParallelExceedsBitmap"
kChildrenExceedMax == "kChildrenExceedMax"
kNullChild == "kNullChild"
ValidateError ==
  {kNone, kLeafMissingTick, kInverterNotOneChild, kParallelExceedsBitmap,
   kChildrenExceedMax, kNullChild}

kMaxChildren == 8
kMaxParallelChildren == 32

\* The arena.  Node 1 is the root; nodes 2 and 3 can be attached to the
\* root's first child; nodes 4, 5, ... can be attached to the root.
NULL == 0
Root == 1
Nodes == 1 .. (3 + MaxRootKids)

VARIABLES
  nodes,        \* the arena: node id -> the Node's data members
  tick_count,   \* BehaviorTree::tick_count_
  last_status,  \* BehaviorTree::last_status_
  log,          \* what the last Tick or Reset of the tree did, in order
  validated,    \* the last validation call and the ValidateError it returned
  max_children  \* Node::kMaxChildren of the build (BT_MAX_CHILDREN)

vars == <<nodes, tick_count, last_status, log, validated, max_children>>

\* ------------------------------------------------------------------------
\* Construction (build phase)
\* ------------------------------------------------------------------------
\* Node::Node(name): an Action with no callbacks and no children.
NewNode ==
  [type_ |-> kAction, status_ |-> kFailure, children_count_ |-> 0,
   current_child_ |-> 0, success_policy_ |-> kRequireAll,
   child_done_bits_ |-> 0, child_success_bits_ |-> 0,
   tick_ |-> FALSE, on_enter_ |-> FALSE, on_exit_ |-> FALSE,
   children_ |-> [i \in 0 .. (kMaxChildren - 1) |-> NULL]]

set_type(nd, t) == [nd EXCEPT !.type_ = t]

set_tick(nd, fn) == [nd EXCEPT !.tick_ = fn]

set_on_enter(nd, fn) == [nd EXCEPT !.on_enter_ = fn]

set_on_exit(nd, fn) == [nd EXCEPT !.on_exit_ = fn]

set_parallel_policy(nd, p) == [nd EXCEPT !.success_policy_ = p]

\* SetChildren(children, count): kids is the caller's array, a sequence.
\* The count is stored before the copies are made; the copies land in the
\* slots the node's array has.
SetChildren(nd, kids) ==
  [nd EXCEPT !.children_count_ = Len(kids),
             !.children_ = [i \in DOMAIN nd.children_ |->
                              IF i < Len(kids) THEN kids[i + 1]
                              ELSE nd.children_[i]]]

\* AddChild(child); the action that uses it respects the assert.
AddChild(nd, child) ==
  [nd EXCEPT !.children_[nd.children_count_] = child,
             !.children_count_ = @ + 1]

\* A SetChild that puts the child in the first slot and leaves the count of
\* a node that has children as it is.
SetChildKeepsCount(nd, child) ==
  [nd EXCEPT !.children_[0] = child,
             !.children_count_ = IF @ = 0 THEN 1 ELSE @]

\* SetChild(child)
SetChild(nd, child) ==
  [nd EXCEPT !.children_[0] = child, !.children_count_ = 1]

\* ------------------------------------------------------------------------
\* Trace of one operation
\* ------------------------------------------------------------------------
\* "tick":  Node::Tick was entered on the node
\* "enter": the node's bound on_enter_ callback was invoked
\* "cb":    the node's bound tick_ callback was invoked and returned st
\* "exit":  the node's bound on_exit_ callback was invoked
\* "ret":   Node::Tick returned st
\* "reset": Node::Reset was entered on the node, whose status was st
\* "AddChild", "SetChildren", "SetChild": the call was made on the node;
\*          the "arg" events after it name the children given, in order
NoStatus == "-"

Ev(e, id, st) == [ev |-> e, node |-> id, st |-> st]

\* ------------------------------------------------------------------------
\* Node dispatch engine.  s = [nodes, log, ret] is the arena, the trace so
\* far and the status the last call returned.
\* ------------------------------------------------------------------------
CallEnter(id, s) ==
  IF s.nodes[id].on_enter_
    THEN [s EXCEPT !.log = Append(@, Ev("enter", id, NoStatus))]
    ELSE s

\* A node whose on-exit callback is never invoked.
CallExitDropped(id, s) == s

CallExit(id, s) ==
  IF s.nodes[id].on_exit_
    THEN [s EXCEPT !.log = Append(@, Ev("exit", id, NoStatus))]
    ELSE s

ChildAt(nd, index) ==
  IF index < nd.children_count_ THEN nd.children_[index] ELSE NULL

\* A return that leaves the stored status as it was.
FinishForgets(id, s, st) == [s EXCEPT !.ret = st]

\* status_ = st; return st;
Finish(id, s, st) == [s EXCEPT !.nodes[id].status_ = st, !.ret = st]

\* status_ = st; CallExit(ctx); return st;
FinishExit(id, s, st) ==
  [CallExit(id, [s EXCEPT !.nodes[id].status_ = st]) EXCEPT !.ret = st]

\* A node that announces its entry on every Tick, Running or not.
EnterAlways(id, s) == CallEnter(id, s)

\* if (status_ != Status::kRunning) { CallEnter(ctx); }
EnterIfFresh(id, s) ==
  IF s.nodes[id].status_ # kRunning THEN CallEnter(id, s) ELSE s

RECURSIVE Tick(_, _)
RECURSIVE SequenceLoop(_, _, _)
RECURSIVE SelectorLoop(_, _, _)
RECURSIVE ParallelLoop(_, _, _, _)

\* TickLeaf once the tick_ callback is known to be bound and returns result.
LeafResult(id, s, result) ==
  LET s1 == EnterIfFresh(id, s)
      s2 == [s1 EXCEPT !.nodes[id].status_ = result,
                       !.log = Append(@, Ev("cb", id, result))]
      s3 == IF result # kRunning THEN CallExit(id, s2) ELSE s2
  IN  [s3 EXCEPT !.ret = result]

\* A leaf that takes a missing tick callback for a Failure.
TickLeafUnboundFails(id, s) ==
  IF ~s.nodes[id].tick_
    THEN {Finish(id, s, kFailure)}
    ELSE {LeafResult(id, s, result) : result \in Status}

TickLeaf(id, s) ==
  IF ~s.nodes[id].tick_
    THEN {Finish(id, s, kError)}
    ELSE {LeafResult(id, s, result) : result \in Status}

\* A Sequence that takes a child's Failure for Success and goes on.
SequenceStepPastFailure(id, i, c) ==
  LET at == [c EXCEPT !.nodes[id].current_child_ = i] IN
  IF c.ret = kRunning THEN {Finish(id, at, kRunning)}
  ELSE IF c.ret = kError THEN {FinishExit(id, at, c.ret)}
  ELSE SequenceLoop(id, i + 1, c)

\* A Sequence that does not save its cursor when a child returns Running.
SequenceStepForgetsCursor(id, i, c) ==
  LET at == [c EXCEPT !.nodes[id].current_child_ = i] IN
  IF c.ret = kRunning THEN {Finish(id, c, kRunning)}
  ELSE IF c.ret # kSuccess THEN {FinishExit(id, at, c.ret)}
  ELSE SequenceLoop(id, i + 1, c)

\* The body of TickSequence's loop after child i returned (c.ret).
SequenceStep(id, i, c) ==
  LET at == [c EXCEPT !.nodes[id].current_child_ = i] IN
  IF c.ret = kRunning THEN {Finish(id, at, kRunning)}
  ELSE IF c.ret # kSuccess THEN {FinishExit(id, at, c.ret)}
  ELSE SequenceLoop(id, i + 1, c)

\* A Sequence that takes having no children for a Failure.
SequenceLoopEmptyFails(id, i, s) ==
  IF i < s.nodes[id].children_count_
    THEN LET child == ChildAt(s.nodes[id], i) IN
         IF child = NULL
           THEN {FinishExit(id, s, kError)}
           ELSE UNION {SequenceStep(id, i, c) : c \in Tick(child, s)}
    ELSE IF s.nodes[id].children_count_ = 0
      THEN {FinishExit(id, s, kFailure)}
      ELSE {FinishExit(id, s, kSuccess)}

SequenceLoop(id, i, s) ==
  IF i < s.nodes[id].children_count_
    THEN LET child == ChildAt(s.nodes[id], i) IN
         IF child = NULL
           THEN {FinishExit(id, s, kError)}
           ELSE UNION {SequenceStep(id, i, c) : c \in Tick(child, s)}
    ELSE {FinishExit(id, s, kSuccess)}

\* A scan that restarts at child 0 on every Tick, Running or not.
RewindAlways(id, s) ==
  IF s.nodes[id].status_ # kRunning
    THEN CallEnter(id, [s EXCEPT !.nodes[id].current_child_ = 0])
    ELSE [s EXCEPT !.nodes[id].current_child_ = 0]

\* A scan that goes on from wherever the cursor was left, Running or not.
RewindNever(id, s) ==
  IF s.nodes[id].status_ # kRunning THEN CallEnter(id, s) ELSE s

\* if (status_ != kRunning) { current_child_ = 0; CallEnter(ctx); }
RewindIfFresh(id, s) ==
  IF s.nodes[id].status_ # kRunning
    THEN CallEnter(id, [s EXCEPT !.nodes[id].current_child_ = 0])
    ELSE s

\* A Sequence that invokes on-enter once its children have run.
TickSequenceEntersLate(id, s) ==
  LET fresh == s.nodes[id].status_ # kRunning
      s1 == IF fresh THEN [s EXCEPT !.nodes[id].current_child_ = 0] ELSE s
  IN  {IF fresh THEN CallEnter(id, r) ELSE r :
         r \in SequenceLoop(id, s1.nodes[id].current_child_, s1)}

TickSequence(id, s) ==
  LET s1 == RewindIfFresh(id, s)
  IN  SequenceLoop(id, s1.nodes[id].current_child_, s1)

\* A Selector that gives up at the first Failure.
SelectorStepStopsAtFailure(id, i, c) ==
  LET at == [c EXCEPT !.nodes[id].current_child_ = i] IN
  IF c.ret = kRunning THEN {Finish(id, at, kRunning)}
  ELSE {FinishExit(id, at, c.ret)}

\* A Selector that takes a child's Error for a Failure and goes on.
SelectorStepPastError(id, i, c) ==
  LET at == [c EXCEPT !.nodes[id].current_child_ = i] IN
  IF c.ret = kRunning THEN {Finish(id, at, kRunning)}
  ELSE IF c.ret = kSuccess THEN {FinishExit(id, at, kSuccess)}
  ELSE SelectorLoop(id, i + 1, c)

\* The body of TickSelector's loop after child i returned (c.ret).
SelectorStep(id, i, c) ==
  LET at == [c EXCEPT !.nodes[id].current_child_ = i] IN
  IF c.ret = kRunning THEN {Finish(id, at, kRunning)}
  ELSE IF c.ret = kSuccess THEN {FinishExit(id, at, kSuccess)}
  ELSE IF c.ret = kError THEN {FinishExit(id, at, kError)}
  ELSE SelectorLoop(id, i + 1, c)

\* A Selector that ticks each child twice in a row and goes by the second
\* result.
SelectorLoopTicksTwice(id, i, s) ==
  IF i < s.nodes[id].children_count_
    THEN LET child == ChildAt(s.nodes[id], i) IN
         IF child = NULL
           THEN {FinishExit(id, s, kError)}
           ELSE UNION {SelectorStep(id, i, c) :
                         c \in UNION {Tick(child, b) : b \in Tick(child, s)}}
    ELSE {FinishExit(id, s, kFailure)}

SelectorLoop(id, i, s) ==
  IF i < s.nodes[id].children_count_
    THEN LET child == ChildAt(s.nodes[id], i) IN
         IF child = NULL
           THEN {FinishExit(id, s, kError)}
           ELSE UNION {SelectorStep(id, i, c) : c \in Tick(child, s)}
    ELSE {FinishExit(id, s, kFailure)}

TickSelector(id, s) ==
  LET s1 == RewindIfFresh(id, s)
  IN  SelectorLoop(id, s1.nodes[id].current_child_, s1)

\* The uint32_t masks: bit_mask = 1 << i, with i < children_count_ and at
\* most kMaxChildren = 8 children in the array, so no shift reaches bit 32.
\* (bits & bit_mask) != 0 and bits |= bit_mask.
Shl(i) == 2 ^ i

TestBit(bits, i) == (bits \div Shl(i)) % 2 = 1

SetBit(bits, i) == IF TestBit(bits, i) THEN bits ELSE bits + Shl(i)

\* RequireAll that waits for the running children before it reports a
\* failure.
PolicyResultAllWaits(policy, cnt) ==
  IF policy = kRequireOne
    THEN IF cnt.success > 0 THEN kSuccess
         ELSE IF cnt.running > 0 THEN kRunning
         ELSE kFailure
    ELSE IF cnt.running > 0 THEN kRunning
         ELSE IF cnt.failure > 0 THEN kFailure
         ELSE kSuccess

\* RequireOne that waits for the running children before it reports a
\* success.
PolicyResultOneWaits(policy, cnt) ==
  IF policy = kRequireOne
    THEN IF cnt.running > 0 THEN kRunning
         ELSE IF cnt.success > 0 THEN kSuccess
         ELSE kFailure
    ELSE IF cnt.failure > 0 THEN kFailure
         ELSE IF cnt.running > 0 THEN kRunning
         ELSE kSuccess

\* A policy evaluation that reports Running until some child has counted.
PolicyResultIdleRuns(policy, cnt) ==
  IF cnt.running + cnt.success + cnt.failure = 0 THEN kRunning
  ELSE IF policy = kRequireOne
    THEN IF cnt.success > 0 THEN kSuccess
         ELSE IF cnt.running > 0 THEN kRunning
         ELSE kFailure
    ELSE IF cnt.failure > 0 THEN kFailure
         ELSE IF cnt.running > 0 THEN kRunning
         ELSE kSuccess

\* The policy evaluation that follows TickParallel's loop;
\* cnt = [running, success, failure], the three counters.
ParallelPolicyResult(policy, cnt) ==
  IF policy = kRequireOne
    THEN IF cnt.success > 0 THEN kSuccess
         ELSE IF cnt.running > 0 THEN kRunning
         ELSE kFailure
    ELSE IF cnt.failure > 0 THEN kFailure
         ELSE IF cnt.running > 0 THEN kRunning
         ELSE kSuccess

\* A Parallel that halts the children still Running when it returns a
\* terminal status.
ParallelFinishHaltsKids(id, s, cnt) ==
  LET result == ParallelPolicyResult(s.nodes[id].success_policy_, cnt)
      kids == {s.nodes[id].children_[i] :
                 i \in {j \in DOMAIN s.nodes[id].children_ :
                          j < s.nodes[id].children_count_}}
      halted == [s EXCEPT !.nodes =
                   [n \in DOMAIN s.nodes |->
                      IF n \in kids /\ s.nodes[n].status_ = kRunning
                        THEN [s.nodes[n] EXCEPT !.status_ = kFailure]
                        ELSE s.nodes[n]]]
  IN  IF result = kRunning THEN Finish(id, s, kRunning)
      ELSE FinishExit(id, halted, result)

ParallelFinish(id, s, cnt) ==
  LET result == ParallelPolicyResult(s.nodes[id].success_policy_, cnt) IN
  IF result = kRunning THEN Finish(id, s, kRunning)
  ELSE FinishExit(id, s, result)

\* A Parallel that stops its loop at the child that decides the result.
ParallelStepStopsWhenDecided(id, i, c, cnt) ==
  IF c.ret = kRunning
    THEN ParallelLoop(id, i + 1, c, [cnt EXCEPT !.running = @ + 1])
  ELSE IF c.ret = kSuccess
    THEN LET c1 == [c EXCEPT !.nodes[id].child_done_bits_ = SetBit(@, i),
                             !.nodes[id].child_success_bits_ = SetBit(@, i)]
             n1 == [cnt EXCEPT !.success = @ + 1]
         IN  IF c.nodes[id].success_policy_ = kRequireOne
               THEN {ParallelFinish(id, c1, n1)}
               ELSE ParallelLoop(id, i + 1, c1, n1)
  ELSE LET c1 == [c EXCEPT !.nodes[id].child_done_bits_ = SetBit(@, i)]
           n1 == [cnt EXCEPT !.failure = @ + 1]
       IN  IF c.nodes[id].success_policy_ = kRequireAll
             THEN {ParallelFinish(id, c1, n1)}
             ELSE ParallelLoop(id, i + 1, c1, n1)

\* A Parallel that records a child's Success in the success bitmask alone.
ParallelStepSuccessBitOnly(id, i, c, cnt) ==
  IF c.ret = kRunning
    THEN ParallelLoop(id, i + 1, c, [cnt EXCEPT !.running = @ + 1])
  ELSE IF c.ret = kSuccess
    THEN ParallelLoop(id, i + 1,
           [c EXCEPT !.nodes[id].child_success_bits_ = SetBit(@, i)],
           [cnt EXCEPT !.success = @ + 1])
  ELSE ParallelLoop(id, i + 1,
           [c EXCEPT !.nodes[id].child_done_bits_ = SetBit(@, i)],
           [cnt EXCEPT !.failure = @ + 1])

\* The body of TickParallel's loop after child i returned (c.ret).
ParallelStep(id, i, c, cnt) ==
  IF c.ret = kRunning
    THEN ParallelLoop(id, i + 1, c, [cnt EXCEPT !.running = @ + 1])
  ELSE IF c.ret = kSuccess
    THEN ParallelLoop(id, i + 1,
           [c EXCEPT !.nodes[id].child_done_bits_ = SetBit(@, i),
                     !.nodes[id].child_success_bits_ = SetBit(@, i)],
           [cnt EXCEPT !.success = @ + 1])
  ELSE ParallelLoop(id, i + 1,
           [c EXCEPT !.nodes[id].child_done_bits_ = SetBit(@, i)],
           [cnt EXCEPT !.failure = @ + 1])

ParallelLoop(id, i, s, cnt) ==
  IF i < s.nodes[id].children_count_
    THEN IF TestBit(s.nodes[id].child_done_bits_, i)
           THEN IF TestBit(s.nodes[id].child_success_bits_, i)
                  THEN ParallelLoop(id, i + 1, s,
                                    [cnt EXCEPT !.success = @ + 1])
                  ELSE ParallelLoop(id, i + 1, s,
                                    [cnt EXCEPT !.failure = @ + 1])
           ELSE LET child == ChildAt(s.nodes[id], i) IN
                IF child = NULL
                  THEN ParallelLoop(id, i + 1,
                         [s EXCEPT !.nodes[id].child_done_bits_ = SetBit(@, i)],
                         [cnt EXCEPT !.failure = @ + 1])
                  ELSE UNION {ParallelStep(id, i, c, cnt) : c \in Tick(child, s)}
    ELSE {ParallelFinish(id, s, cnt)}

\* A Parallel that forgets its finished children on every Tick.
ClearAlways(id, s) ==
  LET cleared == [s EXCEPT !.nodes[id].child_done_bits_ = 0,
                           !.nodes[id].child_success_bits_ = 0]
  IN  IF s.nodes[id].status_ # kRunning THEN CallEnter(id, cleared)
      ELSE cleared

\* A Parallel that never forgets a finished child.
ClearNever(id, s) ==
  IF s.nodes[id].status_ # kRunning THEN CallEnter(id, s) ELSE s

\* if (status_ != kRunning) { child_done_bits_ = 0; child_success_bits_ = 0;
\*                            CallEnter(ctx); }
ClearIfFresh(id, s) ==
  IF s.nodes[id].status_ # kRunning
    THEN CallEnter(id, [s EXCEPT !.nodes[id].child_done_bits_ = 0,
                                 !.nodes[id].child_success_bits_ = 0])
    ELSE s

TickParallel(id, s) ==
  ParallelLoop(id, 0, ClearIfFresh(id, s),
               [running |-> 0, success |-> 0, failure |-> 0])

\* An Inverter that hands its child's status through.
InvertNothing(child_status) == child_status

\* An Inverter that takes its child's Error for a Failure.
InvertErrorToo(child_status) ==
  IF child_status = kSuccess THEN kFailure
  ELSE IF child_status = kRunning THEN kRunning
  ELSE kSuccess

\* Success <-> Failure; Running and Error unchanged.
Invert(child_status) ==
  IF child_status = kSuccess THEN kFailure
  ELSE IF child_status = kFailure THEN kSuccess
  ELSE child_status

\* TickInverter after its child returned (c.ret).
InverterStep(id, c) ==
  LET result == Invert(c.ret) IN
  IF result = kRunning THEN Finish(id, c, kRunning)
  ELSE FinishExit(id, c, result)

\* An Inverter that ticks its first child whatever its child count is.
TickInverterAnyArity(id, s) ==
  LET child == s.nodes[id].children_[0] IN
  IF child = NULL
    THEN {Finish(id, s, kError)}
    ELSE {InverterStep(id, c) : c \in Tick(child, EnterIfFresh(id, s))}

TickInverter(id, s) ==
  IF s.nodes[id].children_count_ # 1
    THEN {Finish(id, s, kError)}
    ELSE LET child == ChildAt(s.nodes[id], 0) IN
         IF child = NULL
           THEN {Finish(id, s, kError)}
           ELSE {InverterStep(id, c) : c \in Tick(child, EnterIfFresh(id, s))}

\* Node::Tick: the switch on type_.
Dispatch(id, s) ==
  LET t == s.nodes[id].type_ IN
  IF IsLeafType(t) THEN TickLeaf(id, s)
  ELSE IF t = kSequence THEN TickSequence(id, s)
  ELSE IF t = kSelector THEN TickSelector(id, s)
  ELSE IF t = kParallel THEN TickParallel(id, s)
  ELSE IF t = kInverter THEN TickInverter(id, s)
  ELSE {Finish(id, s, kError)}

\* Node::Tick, with its entry and its return written to the trace.
Tick(id, s) ==
  {[r EXCEPT !.log = Append(@, Ev("ret", id, r.ret))] :
     r \in Dispatch(id, [s EXCEPT !.log = Append(@, Ev("tick", id, NoStatus))])}

\* Node::Reset, recursive over the non-null children; s = [nodes, log].
RECURSIVE ResetNode(_, _)
RECURSIVE ResetKids(_, _, _)
\* A Reset that goes down to the first child only.
ResetKidsFirstOnly(id, i, s) ==
  IF i = 0 /\ i < s.nodes[id].children_count_
       /\ s.nodes[id].children_[i] # NULL
    THEN ResetNode(s.nodes[id].children_[i], s)
    ELSE s

ResetKids(id, i, s) ==
  IF i < s.nodes[id].children_count_
    THEN IF s.nodes[id].children_[i] # NULL
           THEN ResetKids(id, i + 1, ResetNode(s.nodes[id].children_[i], s))
           ELSE ResetKids(id, i + 1, s)
    ELSE s

\* A Reset that leaves the cursor of a suspended scan where it was.
ResetFieldsKeepsCursor(id, s) ==
  [s EXCEPT !.nodes[id].status_ = kFailure,
            !.nodes[id].child_done_bits_ = 0,
            !.nodes[id].child_success_bits_ = 0]

\* The four assignments of Node::Reset.
ResetFields(id, s) ==
  [s EXCEPT !.nodes[id].status_ = kFailure,
            !.nodes[id].current_child_ = 0,
            !.nodes[id].child_done_bits_ = 0,
            !.nodes[id].child_success_bits_ = 0]

\* A Reset that tells a Running node that it is over, through on-exit.
ResetNodeCancels(id, s) ==
  LET s1 == [s EXCEPT !.log = Append(@, Ev("reset", id, s.nodes[id].status_))]
      s2 == IF s.nodes[id].status_ = kRunning THEN CallExit(id, s1) ELSE s1
  IN  ResetKids(id, 0, ResetFields(id, s2))

ResetNode(id, s) ==
  ResetKids(id, 0,
    ResetFields(id, [s EXCEPT
      !.log = Append(@, Ev("reset", id, s.nodes[id].status_))]))

\* ------------------------------------------------------------------------
\* Validation
\* ------------------------------------------------------------------------
\* A Validate that does not look at the callbacks.
ValidateIgnoresCallbacks(nd) ==
  IF nd.children_count_ > max_children THEN kChildrenExceedMax
  ELSE IF \E i \in 0 .. (nd.children_count_ - 1) : nd.children_[i] = NULL
    THEN kNullChild
  ELSE IF nd.type_ = kInverter /\ nd.children_count_ # 1
    THEN kInverterNotOneChild
  ELSE IF nd.type_ = kParallel /\ nd.children_count_ > kMaxParallelChildren
    THEN kParallelExceedsBitmap
  ELSE kNone

\* A Validate that runs its checks in the order its description lists them:
\* leaf callback, Inverter arity, Parallel width, capacity, null children.
ValidateAsDocumented(nd) ==
  IF IsLeafType(nd.type_) /\ ~nd.tick_ THEN kLeafMissingTick
  ELSE IF nd.type_ = kInverter /\ nd.children_count_ # 1
    THEN kInverterNotOneChild
  ELSE IF nd.type_ = kParallel /\ nd.children_count_ > kMaxParallelChildren
    THEN kParallelExceedsBitmap
  ELSE IF nd.children_count_ > max_children THEN kChildrenExceedMax
  ELSE IF \E i \in 0 .. (nd.children_count_ - 1) : nd.children_[i] = NULL
    THEN kNullChild
  ELSE kNone

\* Node::Validate on the node nd, in a build whose kMaxChildren is
\* max_children.
Validate(nd) ==
  IF nd.children_count_ > max_children THEN kChildrenExceedMax
  ELSE IF \E i \in 0 .. (nd.children_count_ - 1) : nd.children_[i] = NULL
    THEN kNullChild
  ELSE IF IsLeafType(nd.type_) /\ ~nd.tick_ THEN kLeafMissingTick
  ELSE IF nd.type_ = kInverter /\ nd.children_count_ # 1
    THEN kInverterNotOneChild
  ELSE IF nd.type_ = kParallel /\ nd.children_count_ > kMaxParallelChildren
    THEN kParallelExceedsBitmap
  ELSE kNone

\* Node::ValidateTree: the node, then its non-null children from index i on,
\* returning at the first error.
RECURSIVE ValidateTree(_, _)
RECURSIVE ValidateKids(_, _, _)
ValidateKids(id, i, ns) ==
  IF i < ns[id].children_count_
    THEN IF ns[id].children_[i] # NULL
           THEN LET e == ValidateTree(ns[id].children_[i], ns) IN
                IF e # kNone THEN e ELSE ValidateKids(id, i + 1, ns)
           ELSE ValidateKids(id, i + 1, ns)
    ELSE kNone

\* A ValidateTree that checks all of a node's children before it descends
\* into any of them.
ValidateTreeByLevel(id, ns) ==
  LET e == Validate(ns[id])
      bad == {i \in 0 .. (ns[id].children_count_ - 1) :
                ns[id].children_[i] # NULL
                  /\ Validate(ns[ns[id].children_[i]]) # kNone}
  IN  IF e # kNone THEN e
      ELSE IF bad # {}
        THEN Validate(ns[ns[id].children_[
               CHOOSE i \in bad : \A j \in bad : i <= j]])
      ELSE ValidateKids(id, 0, ns)

ValidateTree(id, ns) ==
  LET e == Validate(ns[id]) IN
  IF e # kNone THEN e ELSE ValidateKids(id, 0, ns)

\* ------------------------------------------------------------------------
\* Trees the driver builds
\* ------------------------------------------------------------------------
\* factory::MakeAction plus both lifecycle callbacks.
MakeAction(bound) ==
  set_on_exit(set_on_enter(set_tick(set_type(NewNode, kAction), bound),
                           TRUE), TRUE)

\* factory::MakeCondition; conditions get no lifecycle callbacks.
MakeCondition == set_tick(set_type(NewNode, kCondition), TRUE)

\* factory::MakeSequence/MakeSelector/MakeParallel/MakeInverter plus both
\* lifecycle callbacks; kind = <<type, policy>>.
MakeBranch(kind, kids) ==
  set_on_exit(set_on_enter(set_parallel_policy(
    SetChildren(set_type(NewNode, kind[1]), kids), kind[2]), TRUE), TRUE)

BranchKinds ==
  {<<kSequence, kRequireAll>>, <<kSelector, kRequireAll>>,
   <<kParallel, kRequireAll>>, <<kParallel, kRequireOne>>,
   <<kInverter, kRequireAll>>}

Leaf == <<"leaf">>

\* The root is a branch of kind rk over rn children, nodes 4, 5, ...  Its
\* first child is a branch of kind fk over sn children (nodes 2, 3) or a
\* leaf; the other children are leaves, Actions at even ids and Conditions
\* at odd ids.  last tells what the root's last child reference is: "leaf"
\* (as above), "bare" (an Action whose tick callback was never bound) or
\* "null" (a null reference).  Nodes that are not attached stay as
\* constructed.
BuildTree(rk, rn, fk, sn, last) ==
  [id \in Nodes |->
     IF id = Root
       THEN MakeBranch(rk, [j \in 1 .. rn |->
              IF j = rn /\ last = "null" THEN NULL ELSE 3 + j])
     ELSE IF id > 3 + rn \/ (id = 3 + rn /\ last = "null") THEN NewNode
     ELSE IF id = 4 /\ fk # Leaf
       THEN MakeBranch(fk, [j \in 1 .. sn |-> 1 + j])
     ELSE IF id < 4
       THEN IF fk = Leaf \/ rn = 0 \/ (rn = 1 /\ last = "null") \/ id > 1 + sn
              THEN NewNode
            ELSE IF id % 2 = 0 THEN MakeAction(TRUE) ELSE MakeCondition
     ELSE IF id = 3 + rn /\ last = "bare" THEN MakeAction(FALSE)
     ELSE IF id % 2 = 0 THEN MakeAction(TRUE) ELSE MakeCondition]

\* Flat trees: every root kind and width over leaves, with every kind of
\* last child reference.  Nested trees: every root kind over every kind of
\* branch, alone or followed by one leaf.
Trees ==
  {BuildTree(rk, rn, Leaf, 0, last) :
     rk \in BranchKinds, rn \in 0 .. MaxRootKids,
     last \in {"leaf", "bare", "null"}}
  \cup
  {BuildTree(rk, rn, fk, sn, "leaf") :
     rk \in BranchKinds, rn \in 1 .. 2,
     fk \in BranchKinds, sn \in 0 .. 2}

\* ------------------------------------------------------------------------
\* The tree manager and the specification
\* ------------------------------------------------------------------------
\* No validation call was made yet.
NoCall == [op |-> "none", node |-> NULL, err |-> kNone]

\* A validation call op on node id that returned e.
Call(op, id, e) == [op |-> op, node |-> id, err |-> e]

Init ==
  /\ nodes \in Trees
  /\ tick_count = 0
  /\ last_status = kFailure
  /\ log = <<>>
  /\ validated = NoCall
  /\ max_children = kMaxChildren

\* A manager that counts the runs of the tree that came to an end, not its
\* Ticks.
TreeTickCountsRuns ==
  /\ tick_count < MaxTicks
  /\ \E r \in Tick(Root, [nodes |-> nodes, log |-> <<>>, ret |-> kFailure]) :
       /\ nodes' = r.nodes
       /\ log' = r.log
       /\ last_status' = r.ret
       /\ tick_count' = IF r.ret = kRunning THEN tick_count ELSE tick_count + 1
  /\ UNCHANGED <<validated, max_children>>

\* BehaviorTree::Tick().  tick_count_ is a uint32_t; the MaxTicks bound keeps
\* it far below the wrap at 2^32.
TreeTick ==
  /\ tick_count < MaxTicks
  /\ \E r \in Tick(Root, [nodes |-> nodes, log |-> <<>>, ret |-> kFailure]) :
       /\ nodes' = r.nodes
       /\ log' = r.log
       /\ last_status' = r.ret
  /\ tick_count' = tick_count + 1
  /\ UNCHANGED <<validated, max_children>>

\* A manager whose Reset starts the statistics afresh.
TreeResetClearsCount ==
  /\ LET r == ResetNode(Root, [nodes |-> nodes, log |-> <<>>]) IN
       /\ nodes' = r.nodes
       /\ log' = r.log
  /\ last_status' = kFailure
  /\ tick_count' = 0
  /\ UNCHANGED <<validated, max_children>>

\* A manager whose Reset leaves the cached status as it is.
TreeResetKeepsStatus ==
  /\ LET r == ResetNode(Root, [nodes |-> nodes, log |-> <<>>]) IN
       /\ nodes' = r.nodes
       /\ log' = r.log
  /\ UNCHANGED <<last_status, tick_count, validated, max_children>>

\* BehaviorTree::Reset()
TreeReset ==
  /\ LET r == ResetNode(Root, [nodes |-> nodes, log |-> <<>>]) IN
       /\ nodes' = r.nodes
       /\ log' = r.log
  /\ last_status' = kFailure
  /\ UNCHANGED <<tick_count, validated, max_children>>

Next == TreeTick \/ TreeReset

Spec == Init /\ [][Next]_vars

\* A manager that brings the tree to its initial state before it validates
\* it.
TreeValidateResets ==
  /\ validated' = Call("ValidateTree", Root, ValidateTree(Root, nodes))
  /\ nodes' = ResetNode(Root, [nodes |-> nodes, log |-> <<>>]).nodes
  /\ last_status' = kFailure
  /\ UNCHANGED <<tick_count, log, max_children>>

\* BehaviorTree::ValidateTree().  The drivers call it after the tree is
\* built and before the first Tick; nothing keeps a caller from calling it
\* later.
TreeValidate ==
  /\ validated' = Call("ValidateTree", Root, ValidateTree(Root, nodes))
  /\ UNCHANGED <<nodes, tick_count, last_status, log, max_children>>

\* The driver that may validate the tree, before it runs it or later.
NextValidated == TreeValidate \/ TreeTick \/ TreeReset

SpecValidated == Init /\ [][NextValidated]_vars

\* ------------------------------------------------------------------------
\* Validation of configurations, faulty ones included
\* ------------------------------------------------------------------------
\* BT_MAX_CHILDREN is a parameter of the build: 8 unless the build defines
\* it, and then at most 256.  WideChildren is a capacity above the width of
\* the Parallel bitmasks.
WideChildren == kMaxParallelChildren + 2

Builds == {kMaxChildren, WideChildren}

\* Node::Node in a build whose kMaxChildren is cap.
NewNodeIn(cap) == [NewNode EXCEPT !.children_ = [i \in 0 .. (cap - 1) |-> NULL]]

VNodes == 1 .. 4

\* A single node under validation: node 1, of type t, with its tick
\* callback bound or not, over n child references to the leaf 2, of which
\* the one at position hole (if there is one) is null.  A count above the
\* capacity is what SetChildren leaves when the build compiles its assert
\* out.
SubjectKids(n, hole) == [j \in 1 .. n |-> IF j = hole THEN NULL ELSE 2]

BuildSubject(cap, t, bound, n, hole) ==
  [id \in VNodes |->
     IF id = 1
       THEN set_tick(set_type(SetChildren(NewNodeIn(cap), SubjectKids(n, hole)),
                              t), bound)
     ELSE IF id = 2 THEN set_tick(NewNodeIn(cap), TRUE)
     ELSE NewNodeIn(cap)]

Subjects(cap) ==
  {BuildSubject(cap, t, bound, n, hole) :
     t \in NodeType, bound \in BOOLEAN,
     n \in {0, 1, 2, kMaxChildren + 1, kMaxParallelChildren + 1},
     hole \in 0 .. 2}

\* A tree under validation: 1 over 2 and 3, 2 over 4, each node of one of
\* four shapes: sound ("ok"), an Action without tick callback ("bare"), an
\* Inverter ("inverter": sound over one child only), or a Selector with a
\* null reference after its children ("hole").
Shapes == {"ok", "bare", "inverter", "hole"}

VKids(id) == IF id = 1 THEN <<2, 3>> ELSE IF id = 2 THEN <<4>> ELSE <<>>

ShapedNode(cap, shape, kids) ==
  IF shape = "bare" THEN SetChildren(NewNodeIn(cap), kids)
  ELSE IF shape = "inverter"
    THEN SetChildren(set_type(NewNodeIn(cap), kInverter), kids)
  ELSE IF shape = "hole"
    THEN SetChildren(set_type(NewNodeIn(cap), kSelector), Append(kids, NULL))
  ELSE IF kids = <<>> THEN set_tick(NewNodeIn(cap), TRUE)
  ELSE SetChildren(set_type(NewNodeIn(cap), kSequence), kids)

ShapedTrees(cap) ==
  {[id \in VNodes |-> ShapedNode(cap, sh[id], VKids(id))] :
     sh \in [VNodes -> Shapes]}

InitValidation ==
  /\ max_children \in Builds
  /\ nodes \in Subjects(max_children) \cup ShapedTrees(max_children)
  /\ tick_count = 0
  /\ last_status = kFailure
  /\ log = <<>>
  /\ validated = NoCall

\* node.Validate()
NodeValidate ==
  /\ \E id \in VNodes : validated' = Call("Validate", id, Validate(nodes[id]))
  /\ UNCHANGED <<nodes, tick_count, last_status, log, max_children>>

\* node.ValidateTree()
NodeValidateTree ==
  /\ \E id \in VNodes :
       validated' = Call("ValidateTree", id, ValidateTree(id, nodes))
  /\ UNCHANGED <<nodes, tick_count, last_status, log, max_children>>

NextValidation == NodeValidate \/ NodeValidateTree

SpecValidation == InitValidation /\ [][NextValidation]_vars

\* ------------------------------------------------------------------------
\* The driver that validates the tree and then ticks it forever
\* ------------------------------------------------------------------------
\* The trees that ValidateTree accepts.
InitLive ==
  /\ max_children = kMaxChildren
  /\ nodes \in {t \in Trees : ValidateTree(Root, t) = kNone}
  /\ tick_count = 0
  /\ last_status = kFailure
  /\ log = <<>>
  /\ validated = Call("ValidateTree", Root, kNone)

\* BehaviorTree::Tick() in a loop that never ends: tick_count_ wraps, here
\* past MaxTicks as the uint32_t does past 2^32 - 1.
TreeTickForever ==
  /\ \E r \in Tick(Root, [nodes |-> nodes, log |-> <<>>, ret |-> kFailure]) :
       /\ nodes' = r.nodes
       /\ log' = r.log
       /\ last_status' = r.ret
  /\ tick_count' = (tick_count + 1) % (MaxTicks + 1)
  /\ UNCHANGED <<validated, max_children>>

NextLive == TreeTickForever

\* A call of Tick() returned: it has counted itself.  Every step of the
\* loop is such a step and one is always possible, since Tick() can be
\* called in every state and returns.
TickReturns == tick_count' = (tick_count + 1) % (MaxTicks + 1)

\* The loop goes on: while (true) { tree.Tick(); }
SpecLive == InitLive /\ [][NextLive]_vars /\ WF_tick_count(TickReturns)

\* ------------------------------------------------------------------------
\* A Selector and the Inverter-Sequence-Inverter tree over the same leaves
\* ------------------------------------------------------------------------
MaxDualKids == 3    \* most children of the Selector

\* Node 1 is the Selector and nodes 2 .. are its leaves.  The second tree
\* has its own nodes: the outer Inverter, the Sequence under it, one
\* Inverter for each leaf, and a leaf of its own under each of them.
DualRoot == 2 + MaxDualKids

DualSequence == 3 + MaxDualKids

SelectorLeaf(k) == 1 + k

DualInverter(k) == 3 + MaxDualKids + k

DualLeaf(k) == 3 + 2 * MaxDualKids + k

DNodes == 1 .. (3 + 3 * MaxDualKids)

\* The two trees over n leaves; the nodes not used stay as constructed.
BuildDual(n) ==
  [id \in DNodes |->
     IF id = Root
       THEN MakeBranch(<<kSelector, kRequireAll>>,
                       [k \in 1 .. n |-> SelectorLeaf(k)])
     ELSE IF id = DualRoot
       THEN MakeBranch(<<kInverter, kRequireAll>>, <<DualSequence>>)
     ELSE IF id = DualSequence
       THEN MakeBranch(<<kSequence, kRequireAll>>,
                       [k \in 1 .. n |-> DualInverter(k)])
     ELSE IF \E k \in 1 .. n : id = DualInverter(k)
       THEN MakeBranch(<<kInverter, kRequireAll>>,
                       <<id - DualInverter(0) + DualLeaf(0)>>)
     ELSE IF \E k \in 1 .. n : id = SelectorLeaf(k) \/ id = DualLeaf(k)
       THEN MakeAction(TRUE)
     ELSE NewNode]

InitDual ==
  /\ \E n \in 0 .. MaxDualKids : nodes = BuildDual(n)
  /\ tick_count = 0
  /\ last_status = kFailure
  /\ log = <<>>
  /\ validated = NoCall
  /\ max_children = kMaxChildren

\* The outcomes of Tick(id, s) in which the tick callback of the k-th
\* leaf, node base + k, returns o[k] if it is invoked.
TickWith(id, s, o, base) ==
  {r \in Tick(id, s) :
     \A j \in DOMAIN r.log, k \in DOMAIN o :
       (r.log[j].ev = "cb" /\ r.log[j].node = base + k) => r.log[j].st = o[k]}

\* One Tick of the Selector, then one Tick of the other tree, the k-th leaf
\* of both returning the same status if asked.
DualTick ==
  /\ tick_count < MaxTicks
  /\ \E o \in [1 .. MaxDualKids -> Status] :
       \E a \in TickWith(Root, [nodes |-> nodes, log |-> <<>>,
                                 ret |-> kFailure], o, SelectorLeaf(0)) :
         \E b \in TickWith(DualRoot, [a EXCEPT !.log = <<>>], o, DualLeaf(0)) :
           /\ nodes' = b.nodes
           /\ log' = a.log \o b.log
           /\ last_status' = a.ret
  /\ tick_count' = tick_count + 1
  /\ UNCHANGED <<validated, max_children>>

NextDual == DualTick

SpecDual == InitDual /\ [][NextDual]_vars

\* ------------------------------------------------------------------------
\* Building a child list, then ticking the node
\* ------------------------------------------------------------------------
MaxSetChildren == 3    \* longest array given to SetChildren

\* Node 1 is the node under construction; nodes 2 and 3 are the leaves that
\* can be attached to it, any number of times.
BNodes == 1 .. 3

BLeaves == {2, 3}

\* The arrays a caller gives to SetChildren.
ChildArrays == UNION {[1 .. n -> BLeaves] : n \in 0 .. MaxSetChildren}

\* The trace of a build call on the root with the children given.
BuildCall(op, kids) ==
  <<Ev(op, Root, NoStatus)>> \o
  [k \in 1 .. Len(kids) |-> Ev("arg", kids[k], NoStatus)]

InitBuild ==
  /\ \E t \in {kSequence, kSelector} :
       nodes = [id \in BNodes |->
                  IF id = Root THEN set_type(NewNode, t) ELSE MakeCondition]
  /\ tick_count = 0
  /\ last_status = kFailure
  /\ log = <<>>
  /\ validated = NoCall
  /\ max_children = kMaxChildren

\* node.AddChild(child), the assert holding.
NodeAddChild ==
  /\ tick_count = 0
  /\ nodes[Root].children_count_ < kMaxChildren
  /\ \E child \in BLeaves :
       /\ nodes' = [nodes EXCEPT ![Root] = AddChild(@, child)]
       /\ log' = BuildCall("AddChild", <<child>>)
  /\ UNCHANGED <<tick_count, last_status, validated, max_children>>

\* node.SetChildren(children, count), the assert holding.
NodeSetChildren ==
  /\ tick_count = 0
  /\ \E kids \in ChildArrays :
       /\ Len(kids) <= kMaxChildren
       /\ nodes' = [nodes EXCEPT ![Root] = SetChildren(@, kids)]
       /\ log' = BuildCall("SetChildren", kids)
  /\ UNCHANGED <<tick_count, last_status, validated, max_children>>

\* node.SetChild(child)
NodeSetChild ==
  /\ tick_count = 0
  /\ \E child \in BLeaves :
       /\ nodes' = [nodes EXCEPT ![Root] = SetChild(@, child)]
       /\ log' = BuildCall("SetChild", <<child>>)
  /\ UNCHANGED <<tick_count, last_status, validated, max_children>>

\* The first Tick of the node that was built.
FirstTick == tick_count = 0 /\ TreeTick

NextBuild == NodeAddChild \/ NodeSetChildren \/ NodeSetChild \/ FirstTick

SpecBuild == InitBuild /\ [][NextBuild]_vars

\* ------------------------------------------------------------------------
\* Reading the trace
\* ------------------------------------------------------------------------
Terminal == {kSuccess, kFailure, kError}

\* How often event e of node id occurs in trace l.
Count(l, e, id) == Cardinality({k \in DOMAIN l : l[k].ev = e /\ l[k].node = id})

Ticked(l, id) == Count(l, "tick", id) > 0

\* Where event e of node id occurs in l (it occurs).
Pos(l, e, id) == CHOOSE k \in DOMAIN l : l[k].ev = e /\ l[k].node = id

\* What the Tick of node id returned in l (it was ticked).
Ret(l, id) == l[Pos(l, "ret", id)].st

\* The indices of the child array of node id.
KidSlots(ns, id) == {i \in 0 .. (kMaxChildren - 1) : i < ns[id].children_count_}

Kid(ns, id, i) == ns[id].children_[i]

\* The indices of the children of node id that were ticked in l.
KidsTicked(ns, l, id) ==
  {i \in KidSlots(ns, id) : Kid(ns, id, i) # NULL /\ Ticked(l, Kid(ns, id, i))}

\* The children of node id ticked in l are those at first, first + 1, ...
\* up to some index, each ticked once, one after the other in that order.
ScannedFrom(ns, l, id, first) ==
  LET T == KidsTicked(ns, l, id) IN
  /\ \A i \in T : first <= i /\ Count(l, "tick", Kid(ns, id, i)) = 1
  /\ \A i \in T, j \in KidSlots(ns, id) : first <= j /\ j < i => j \in T
  /\ \A i \in T, j \in T :
       i < j => Pos(l, "ret", Kid(ns, id, i)) < Pos(l, "tick", Kid(ns, id, j))

\* Where a Tick of node id starts its scan, from the state before the Tick.
StartOf(ns, id) ==
  IF ns[id].status_ = kRunning THEN ns[id].current_child_ ELSE 0

\* The step is a Tick of the tree.
IsTick == tick_count' = tick_count + 1

\* ------------------------------------------------------------------------
\* C1  Sequence short-circuit: in a Tick of a Sequence the children are
\* ticked in ascending index order starting at the cursor, and if child i
\* returns Failure or Error the Sequence returns that same status from this
\* Tick and no child with a greater index is ticked in this Tick.
\* ------------------------------------------------------------------------
SequenceShortCircuits(before, after, l) ==
  \A id \in Nodes :
    (after[id].type_ = kSequence /\ Ticked(l, id)) =>
      /\ ScannedFrom(after, l, id, StartOf(before, id))
      /\ \A i \in KidsTicked(after, l, id) :
           Ret(l, Kid(after, id, i)) \in {kFailure, kError} =>
             /\ Ret(l, id) = Ret(l, Kid(after, id, i))
             /\ \A j \in KidsTicked(after, l, id) : j <= i

C1_SequenceShortCircuit ==
  [][IsTick => SequenceShortCircuits(nodes, nodes', log')]_vars

\* A Sequence whose first child failed, which returned Failure and left its
\* second child unticked.
C1_Witness ==
  \E id \in Nodes :
    /\ nodes[id].type_ = kSequence /\ Ticked(log, id)
    /\ nodes[id].children_count_ >= 2
    /\ Kid(nodes, id, 1) # NULL
    /\ KidsTicked(nodes, log, id) = {0}
    /\ Ret(log, Kid(nodes, id, 0)) = kFailure
    /\ Ret(log, id) = kFailure

\* ------------------------------------------------------------------------
\* C2  Sequence resume: if a Tick of a Sequence returns Running because
\* child i returned Running, the cursor equals i and no child with a greater
\* index is ticked in that Tick; and the next Tick of the Sequence, with no
\* Reset in between, ticks child i first and ticks no child with a smaller
\* index.
\* ------------------------------------------------------------------------
\* A Tick that returned Running stopped at a Running child, the cursor on it.
SequenceSuspends(after, l) ==
  \A id \in Nodes :
    (after[id].type_ = kSequence /\ Ticked(l, id) /\ Ret(l, id) = kRunning) =>
      \E i \in KidsTicked(after, l, id) :
        /\ Ret(l, Kid(after, id, i)) = kRunning
        /\ after[id].current_child_ = i
        /\ \A j \in KidsTicked(after, l, id) : j <= i

\* A Sequence that is Running (its last Tick returned Running and no Reset
\* followed) starts its next Tick with the child at the cursor.
SequenceResumes(before, l) ==
  \A id \in Nodes :
    (before[id].type_ = kSequence /\ before[id].status_ = kRunning
       /\ Ticked(l, id)) =>
      LET i == before[id].current_child_ IN
      /\ i \in KidsTicked(before, l, id)
      /\ \A j \in KidsTicked(before, l, id) : j >= i
      /\ l[Pos(l, "tick", id) + 1] = Ev("tick", Kid(before, id, i), NoStatus)

C2_SequenceResume ==
  [][IsTick => SequenceSuspends(nodes', log') /\ SequenceResumes(nodes, log')]_vars

\* A later Tick in which a Sequence ticked its second child and not its
\* first.
C2_Witness ==
  \E id \in Nodes :
    /\ nodes[id].type_ = kSequence /\ Ticked(log, id) /\ tick_count >= 2
    /\ KidsTicked(nodes, log, id) = {1}

\* ------------------------------------------------------------------------
\* C3  Selector short-circuit: in a Tick of a Selector the children are
\* ticked in ascending index order from the cursor; a child returning
\* Failure makes the scan go on with the next child, the first child
\* returning Success makes the Selector return Success with no later child
\* ticked, and the Selector returns Failure only when every child from the
\* cursor to the last returned Failure.
\* ------------------------------------------------------------------------
SelectorShortCircuits(before, after, l) ==
  \A id \in Nodes :
    (after[id].type_ = kSelector /\ Ticked(l, id)) =>
      LET T == KidsTicked(after, l, id)
          first == StartOf(before, id)
      IN
      /\ ScannedFrom(after, l, id, first)
      /\ \A i \in T :
           /\ Ret(l, Kid(after, id, i)) = kSuccess =>
                Ret(l, id) = kSuccess /\ \A j \in T : j <= i
           /\ (Ret(l, Kid(after, id, i)) = kFailure
                 /\ i + 1 \in KidSlots(after, id)
                 /\ Kid(after, id, i + 1) # NULL) => i + 1 \in T
      /\ Ret(l, id) = kFailure =>
           \A i \in KidSlots(after, id) :
             i >= first => i \in T /\ Ret(l, Kid(after, id, i)) = kFailure

C3_SelectorShortCircuit ==
  [][IsTick => SelectorShortCircuits(nodes, nodes', log')]_vars

\* A Selector whose first child failed and whose second child succeeded.
C3_Witness ==
  \E id \in Nodes :
    /\ nodes[id].type_ = kSelector /\ Ticked(log, id)
    /\ KidsTicked(nodes, log, id) = {0, 1}
    /\ Ret(log, Kid(nodes, id, 0)) = kFailure
    /\ Ret(log, Kid(nodes, id, 1)) = kSuccess
    /\ Ret(log, id) = kSuccess

\* ------------------------------------------------------------------------
\* Parallel: what a Tick returns, from what its children did.
\* ------------------------------------------------------------------------
\* Child i of node id is done without success after the Tick: a null
\* reference, or a child whose last Tick returned Failure or Error.
KidFailed(ns, id, i) ==
  \/ Kid(ns, id, i) = NULL
  \/ ns[Kid(ns, id, i)].status_ \in {kFailure, kError}

\* Child i has succeeded: its last Tick returned Success.
KidSucceeded(ns, id, i) ==
  Kid(ns, id, i) # NULL /\ ns[Kid(ns, id, i)].status_ = kSuccess

\* Child i returned Running in this Tick.
KidRanOn(ns, l, id, i) ==
  i \in KidsTicked(ns, l, id) /\ Ret(l, Kid(ns, id, i)) = kRunning

\* ------------------------------------------------------------------------
\* C4  Parallel never re-ticks a finished child: while the Parallel stays
\* Running, a child that has returned Success, Failure or Error is not
\* ticked again, and its remembered outcome is counted in every later Tick
\* of the streak.
\* ------------------------------------------------------------------------
ParallelKeepsFinished(before, after, l) ==
  \A id \in Nodes :
    (before[id].type_ = kParallel /\ before[id].status_ = kRunning
       /\ Ticked(l, id)) =>
      \A i \in KidSlots(before, id) :
        (Kid(before, id, i) # NULL
           /\ before[Kid(before, id, i)].status_ \in Terminal) =>
          /\ ~Ticked(l, Kid(before, id, i))
          /\ after[Kid(before, id, i)] = before[Kid(before, id, i)]
          /\ (before[id].success_policy_ = kRequireAll
                /\ KidFailed(before, id, i)) => Ret(l, id) = kFailure
          /\ (before[id].success_policy_ = kRequireOne
                /\ KidSucceeded(before, id, i)) => Ret(l, id) = kSuccess
          /\ (before[id].success_policy_ = kRequireAll
                /\ KidSucceeded(before, id, i)
                /\ \A j \in KidSlots(before, id) :
                     j # i => KidRanOn(after, l, id, j)) =>
               Ret(l, id) = kRunning
          /\ (before[id].success_policy_ = kRequireOne
                /\ KidFailed(before, id, i)
                /\ \A j \in KidSlots(before, id) :
                     j # i => (j \in KidsTicked(after, l, id)
                                 /\ KidFailed(after, id, j))) =>
               Ret(l, id) = kFailure

C4_ParallelNoRetick ==
  [][IsTick => ParallelKeepsFinished(nodes, nodes', log')]_vars

\* A later Tick of a Parallel that ticked one child and skipped another,
\* non-null one.
C4_Witness ==
  \E id \in Nodes :
    /\ nodes[id].type_ = kParallel /\ Ticked(log, id) /\ tick_count >= 2
    /\ \E i, j \in KidSlots(nodes, id) :
         /\ i \in KidsTicked(nodes, log, id)
         /\ Kid(nodes, id, j) # NULL
         /\ j \notin KidsTicked(nodes, log, id)

\* ------------------------------------------------------------------------
\* C5  Parallel/RequireAll result: Failure if at least one child is done
\* without success (in this Tick or remembered), even while other children
\* returned Running; otherwise Running if at least one child returned
\* Running in this Tick; otherwise Success.
\* ------------------------------------------------------------------------
C5_RequireAllResult ==
  \A id \in Nodes :
    (nodes[id].type_ = kParallel /\ nodes[id].success_policy_ = kRequireAll
       /\ Ticked(log, id)) =>
      Ret(log, id) =
        IF \E i \in KidSlots(nodes, id) : KidFailed(nodes, id, i)
          THEN kFailure
        ELSE IF \E i \in KidSlots(nodes, id) : KidRanOn(nodes, log, id, i)
          THEN kRunning
        ELSE kSuccess

\* A RequireAll Parallel that returned Failure in a Tick in which one child
\* failed and another returned Running.
C5_Witness ==
  \E id \in Nodes :
    /\ nodes[id].type_ = kParallel /\ nodes[id].success_policy_ = kRequireAll
    /\ Ticked(log, id) /\ Ret(log, id) = kFailure
    /\ \E i, j \in KidsTicked(nodes, log, id) :
         /\ Ret(log, Kid(nodes, id, i)) = kFailure
         /\ Ret(log, Kid(nodes, id, j)) = kRunning

\* ------------------------------------------------------------------------
\* C6  Parallel/RequireOne result: Success if at least one child has
\* succeeded (in this Tick or remembered), whatever is still Running;
\* otherwise Running if any child returned Running in this Tick; Failure
\* only when every child is done and none succeeded.
\* ------------------------------------------------------------------------
C6_RequireOneResult ==
  \A id \in Nodes :
    (nodes[id].type_ = kParallel /\ nodes[id].success_policy_ = kRequireOne
       /\ Ticked(log, id)) =>
      /\ Ret(log, id) =
           IF \E i \in KidSlots(nodes, id) : KidSucceeded(nodes, id, i)
             THEN kSuccess
           ELSE IF \E i \in KidSlots(nodes, id) : KidRanOn(nodes, log, id, i)
             THEN kRunning
           ELSE kFailure
      /\ Ret(log, id) = kFailure =>
           \A i \in KidSlots(nodes, id) : KidFailed(nodes, id, i)

\* A RequireOne Parallel that returned Success in a Tick in which one child
\* succeeded and another returned Running.
C6_Witness ==
  \E id \in Nodes :
    /\ nodes[id].type_ = kParallel /\ nodes[id].success_policy_ = kRequireOne
    /\ Ticked(log, id) /\ Ret(log, id) = kSuccess
    /\ \E i, j \in KidsTicked(nodes, log, id) :
         /\ Ret(log, Kid(nodes, id, i)) = kSuccess
         /\ Ret(log, Kid(nodes, id, j)) = kRunning

\* ------------------------------------------------------------------------
\* C7  Error propagation: whenever a child's Tick returns Error, the
\* nearest enclosing node (Sequence, Selector, Parallel under either policy,
\* or Inverter) returns Error from the same Tick, so an Error of any ticked
\* node reaches the root unchanged in that Tick.
\* ------------------------------------------------------------------------
C7_ErrorPropagates ==
  /\ \A id \in Nodes :
       (nodes[id].type_ \in {kSequence, kSelector, kParallel, kInverter}
          /\ Ticked(log, id)) =>
         \A i \in KidsTicked(nodes, log, id) :
           Ret(log, Kid(nodes, id, i)) = kError => Ret(log, id) = kError
  /\ (\E id \in Nodes : Ticked(log, id) /\ Ret(log, id) = kError) =>
       last_status = kError

\* ------------------------------------------------------------------------
\* C8  Uniform lifecycle contract: for every node type and every Tick, the
\* bound on-enter callback is invoked exactly once if the node's status
\* before the Tick is not Running (and not at all otherwise), and the bound
\* on-exit callback is invoked exactly once if the Tick's result is Success,
\* Failure or Error (and not at all if it is Running), Ticks whose Error
\* comes from a structural fault included.
\* ------------------------------------------------------------------------
UniformLifecycle(before, l) ==
  \A id \in Nodes :
    Ticked(l, id) =>
      /\ Count(l, "enter", id) =
           IF before[id].on_enter_ /\ before[id].status_ # kRunning
             THEN 1 ELSE 0
      /\ Count(l, "exit", id) =
           IF before[id].on_exit_ /\ Ret(l, id) \in Terminal THEN 1 ELSE 0

C8_UniformLifecycle == [][IsTick => UniformLifecycle(nodes, log')]_vars

\* ------------------------------------------------------------------------
\* C9  Running streak lifecycle: for a node whose consecutive Ticks return
\* Running k >= 1 times and then a terminal status, on-enter is invoked
\* exactly once, in the first Tick of the streak and before the node's own
\* tick work; on-exit is invoked exactly once, in the Tick that returns the
\* terminal status; and on-exit is never invoked in a Tick that returns
\* Running.
\* ------------------------------------------------------------------------
\* By Tick of the streak: the first one (the node was not Running, and
\* returns Running) enters once, first thing, and does not exit; the later
\* ones (the node was Running) never enter, and exit once exactly when they
\* return a terminal status.
StreakLifecycle(before, l) ==
  \A id \in Nodes :
    Ticked(l, id) =>
      LET running == before[id].status_ = kRunning
          r == Ret(l, id)
      IN
      /\ r = kRunning => Count(l, "exit", id) = 0
      /\ (~running /\ r = kRunning /\ before[id].on_enter_) =>
           /\ Count(l, "enter", id) = 1
           /\ l[Pos(l, "tick", id) + 1] = Ev("enter", id, NoStatus)
      /\ running => Count(l, "enter", id) = 0
      /\ (running /\ r \in Terminal /\ before[id].on_exit_) =>
           /\ Count(l, "exit", id) = 1
           /\ l[Pos(l, "ret", id) - 1] = Ev("exit", id, NoStatus)

C9_StreakLifecycle == [][IsTick => StreakLifecycle(nodes, log')]_vars

\* The Tick that ends a streak: a node with both callbacks bound returned a
\* terminal status, exiting without entering.
C9_Witness ==
  \E id \in Nodes :
    /\ nodes[id].on_enter_ /\ nodes[id].on_exit_
    /\ Ticked(log, id) /\ Ret(log, id) \in Terminal
    /\ Count(log, "enter", id) = 0 /\ Count(log, "exit", id) = 1

\* ------------------------------------------------------------------------
\* C10  Inverter mapping: an Inverter with exactly one non-null child
\* returns Failure when the child returns Success, Success when it returns
\* Failure, Running when it returns Running and Error when it returns
\* Error, and the child is ticked exactly once per Inverter Tick.
\* ------------------------------------------------------------------------
C10_InverterMapping ==
  \A id \in Nodes :
    (nodes[id].type_ = kInverter /\ Ticked(log, id)
       /\ nodes[id].children_count_ = 1 /\ Kid(nodes, id, 0) # NULL) =>
      LET c == Kid(nodes, id, 0) IN
      /\ Count(log, "tick", c) = 1
      /\ Ret(log, c) = kSuccess => Ret(log, id) = kFailure
      /\ Ret(log, c) = kFailure => Ret(log, id) = kSuccess
      /\ Ret(log, c) = kRunning => Ret(log, id) = kRunning
      /\ Ret(log, c) = kError => Ret(log, id) = kError

\* An Inverter whose child succeeded and which returned Failure.
C10_Witness ==
  \E id \in Nodes :
    /\ nodes[id].type_ = kInverter /\ Ticked(log, id)
    /\ nodes[id].children_count_ = 1 /\ Kid(nodes, id, 0) # NULL
    /\ Ret(log, Kid(nodes, id, 0)) = kSuccess
    /\ Ret(log, id) = kFailure

\* ------------------------------------------------------------------------
\* C11  Inverter arity fault: the Tick of an Inverter whose child count is
\* not exactly one (zero, or more than one), or whose single child reference
\* is null, returns Error and sets the Inverter's status to Error without
\* ticking any child, whether or not the tree was validated beforehand.
\* ------------------------------------------------------------------------
InverterFaulty(ns, id) ==
  ns[id].type_ = kInverter
    /\ (ns[id].children_count_ # 1 \/ Kid(ns, id, 0) = NULL)

C11_InverterArityFault ==
  \A id \in Nodes :
    (InverterFaulty(nodes, id) /\ Ticked(log, id)) =>
      /\ Ret(log, id) = kError
      /\ nodes[id].status_ = kError
      /\ KidsTicked(nodes, log, id) = {}
      /\ log[Pos(log, "tick", id) + 1] = Ev("ret", id, kError)

\* An Inverter over two non-null children that returned Error from a Tick
\* made after the tree had been validated.
C11_Witness ==
  \E id \in Nodes :
    /\ nodes[id].type_ = kInverter /\ Ticked(log, id)
    /\ nodes[id].children_count_ = 2
    /\ Kid(nodes, id, 0) # NULL /\ Kid(nodes, id, 1) # NULL
    /\ Ret(log, id) = kError
    /\ validated # NoCall

\* ------------------------------------------------------------------------
\* C12  Leaf dispatch: the Tick of an Action or Condition with a bound tick
\* callback invokes that callback exactly once and returns, and stores as
\* the node's status, exactly the status the callback returned; the Tick of
\* a leaf with no bound tick callback returns Error and stores Error, never
\* Success or Failure.
\* ------------------------------------------------------------------------
C12_LeafDispatch ==
  \A id \in Nodes :
    (IsLeafType(nodes[id].type_) /\ Ticked(log, id)) =>
      IF nodes[id].tick_
        THEN /\ Count(log, "cb", id) = 1
             /\ Ret(log, id) = log[Pos(log, "cb", id)].st
             /\ nodes[id].status_ = log[Pos(log, "cb", id)].st
        ELSE /\ Count(log, "cb", id) = 0
             /\ Ret(log, id) = kError
             /\ nodes[id].status_ = kError

\* A Tick in which one leaf's callback returned Failure and a leaf without
\* a callback was ticked.
C12_Witness ==
  \E a, b \in Nodes :
    /\ IsLeafType(nodes[a].type_) /\ nodes[a].tick_ /\ Ticked(log, a)
    /\ Ret(log, a) = kFailure
    /\ IsLeafType(nodes[b].type_) /\ ~nodes[b].tick_ /\ Ticked(log, b)

\* ------------------------------------------------------------------------
\* Reading the trace of a Reset
\* ------------------------------------------------------------------------
\* Trace l is that of a Reset.
WasReset(l) == l # <<>> /\ l[1].ev = "reset"

\* Node id and every descendant reachable through non-null child
\* references.
RECURSIVE Subtree(_, _)
Subtree(ns, id) ==
  {id} \cup UNION {Subtree(ns, Kid(ns, id, i)) :
                     i \in {j \in KidSlots(ns, id) : Kid(ns, id, j) # NULL}}

\* Status Failure, cursor 0 and both completion bitmasks 0.
Idle(nd) ==
  /\ nd.status_ = kFailure
  /\ nd.current_child_ = 0
  /\ nd.child_done_bits_ = 0
  /\ nd.child_success_bits_ = 0

\* The nodes whose status was st when the Reset of trace l reached them.
WereAt(l, st) == {l[k].node : k \in {j \in DOMAIN l : l[j].st = st}}

\* ------------------------------------------------------------------------
\* C13  Reset postcondition: after Reset() on a node, from any state that
\* any sequence of Ticks produced, that node and every descendant reachable
\* through non-null child references has status Failure, cursor 0 and both
\* completion bitmasks 0.
\* ------------------------------------------------------------------------
\* After the tree's Reset the root's subtree is idle; and Reset() applied
\* to any node in the present state would leave that node's subtree idle.
C13_ResetPostcondition ==
  /\ WasReset(log) => \A d \in Subtree(nodes, log[1].node) : Idle(nodes[d])
  /\ \A id \in Nodes :
       \A d \in Subtree(nodes, id) :
         Idle(ResetNode(id, [nodes |-> nodes, log |-> <<>>]).nodes[d])

\* A Reset that reached a Running node with a Running child and a child
\* that had succeeded.
C13_Witness ==
  /\ WasReset(log)
  /\ log[1].st = kRunning
  /\ \E a, b \in Subtree(nodes, Root) \ {Root} :
       a \in WereAt(log, kRunning) /\ b \in WereAt(log, kSuccess)
  /\ \A d \in Subtree(nodes, Root) : Idle(nodes[d])

\* ------------------------------------------------------------------------
\* C14  Reset frame: Reset() leaves every node's type, child list and child
\* count, parallel policy and bound tick, on-enter and on-exit callbacks
\* unchanged, and invokes no callback at all (no tick, on-enter or
\* on-exit), even for nodes whose status was Running when Reset was called.
\* ------------------------------------------------------------------------
SameConfiguration(a, b) ==
  /\ a.type_ = b.type_
  /\ a.children_ = b.children_
  /\ a.children_count_ = b.children_count_
  /\ a.success_policy_ = b.success_policy_
  /\ a.tick_ = b.tick_
  /\ a.on_enter_ = b.on_enter_
  /\ a.on_exit_ = b.on_exit_

ResetFrame(before, after, l) ==
  /\ \A id \in Nodes : SameConfiguration(before[id], after[id])
  /\ \A k \in DOMAIN l : l[k].ev = "reset"
  /\ \A id \in Subtree(before, Root) :
       Count(l, "reset", id) = 1 /\ l[Pos(l, "reset", id)].st = before[id].status_

C14_ResetFrame == [][WasReset(log') => ResetFrame(nodes, nodes', log')]_vars

\* A Reset that reached a Running node with all three callbacks bound.
C14_Witness ==
  /\ WasReset(log)
  /\ \E id \in WereAt(log, kRunning) :
       nodes[id].tick_ /\ nodes[id].on_enter_ /\ nodes[id].on_exit_

\* ------------------------------------------------------------------------
\* The rules of validation
\* ------------------------------------------------------------------------
\* The five rules in their priority order, by the error that reports them.
RuleOrder ==
  <<kChildrenExceedMax, kNullChild, kLeafMissingTick, kInverterNotOneChild,
    kParallelExceedsBitmap>>

\* Node nd violates the rule that error e reports.
Violates(nd, e) ==
  IF e = kChildrenExceedMax THEN nd.children_count_ > max_children
  ELSE IF e = kNullChild
    THEN \E i \in DOMAIN nd.children_ :
           i < nd.children_count_ /\ nd.children_[i] = NULL
  ELSE IF e = kLeafMissingTick
    THEN nd.type_ \in {kAction, kCondition} /\ ~nd.tick_
  ELSE IF e = kInverterNotOneChild
    THEN nd.type_ = kInverter /\ nd.children_count_ # 1
  ELSE nd.type_ = kParallel /\ nd.children_count_ > kMaxParallelChildren

\* The positions in RuleOrder of the rules nd violates.
Violated(nd) == {k \in DOMAIN RuleOrder : Violates(nd, RuleOrder[k])}

Least(S) == CHOOSE k \in S : \A j \in S : k <= j

\* ------------------------------------------------------------------------
\* C15  Validate priority order: Validate() on a node returns the first
\* rule violated in the order ChildrenExceedMax, NullChild, LeafMissingTick,
\* InverterNotOneChild, ParallelExceedsBitmap, and returns None exactly when
\* no rule is violated.
\* ------------------------------------------------------------------------
C15_ValidateOrder ==
  validated.op = "Validate" =>
    LET V == Violated(nodes[validated.node]) IN
    /\ validated.err = kNone <=> V = {}
    /\ V # {} => validated.err = RuleOrder[Least(V)]

\* A Validate() on a node that violates more than one rule, which returned
\* the earliest of them.
C15_Witness ==
  /\ validated.op = "Validate"
  /\ Cardinality(Violated(nodes[validated.node])) >= 2
  /\ validated.err = RuleOrder[Least(Violated(nodes[validated.node]))]

\* ------------------------------------------------------------------------
\* C16  ValidateTree result: ValidateTree() on a node returns None if and
\* only if Validate() returns None for every node of the subtree, and
\* otherwise returns the Validate() error of the first failing node in
\* pre-order (the node before its children, children in ascending index
\* order), without reporting any later fault.
\* ------------------------------------------------------------------------
\* The subtree of node id in pre-order.
RECURSIVE PreOrder(_, _)
RECURSIVE PreOrderKids(_, _, _)
PreOrderKids(ns, id, i) ==
  IF i \in KidSlots(ns, id)
    THEN (IF Kid(ns, id, i) # NULL THEN PreOrder(ns, Kid(ns, id, i)) ELSE <<>>)
           \o PreOrderKids(ns, id, i + 1)
    ELSE <<>>

PreOrder(ns, id) == <<id>> \o PreOrderKids(ns, id, 0)

\* The positions in the pre-order of node id of the nodes that fail Validate.
Failing(ns, id) ==
  {k \in DOMAIN PreOrder(ns, id) : Validate(ns[PreOrder(ns, id)[k]]) # kNone}

C16_ValidateTreeResult ==
  validated.op = "ValidateTree" =>
    LET F == Failing(nodes, validated.node) IN
    /\ validated.err = kNone <=> F = {}
    /\ F # {} =>
         validated.err = Validate(nodes[PreOrder(nodes, validated.node)[Least(F)]])

\* A ValidateTree() on a sound root over a sound child with a faulty
\* grandchild, and over a second child with another fault: it returned the
\* grandchild's error.
C16_Witness ==
  /\ validated = Call("ValidateTree", 1, Validate(nodes[4]))
  /\ PreOrder(nodes, 1) = <<1, 2, 4, 3>>
  /\ Failing(nodes, 1) = {3, 4}
  /\ Validate(nodes[4]) # Validate(nodes[3])

\* ------------------------------------------------------------------------
\* C17  Validation guarantees safe dispatch: if ValidateTree() on the root
\* returned None and the tree is not reconfigured afterwards, then in every
\* sequence of Tick and Reset calls no node's Tick returns Error unless some
\* leaf callback itself returned Error in that Tick.
\* ------------------------------------------------------------------------
\* Some leaf callback returned Error in the course of the Tick of node id.
CallbackErrorIn(l, id) ==
  \E k \in DOMAIN l :
    /\ l[k].ev = "cb" /\ l[k].st = kError
    /\ Pos(l, "tick", id) < k /\ k < Pos(l, "ret", id)

C17_ValidatedDispatch ==
  validated = Call("ValidateTree", Root, kNone) =>
    \A id \in Nodes :
      (Ticked(log, id) /\ Ret(log, id) = kError) => CallbackErrorIn(log, id)

\* A validated tree, in a Tick after the first, whose root returned the
\* Error that a leaf callback returned.
C17_Witness ==
  /\ validated = Call("ValidateTree", Root, kNone)
  /\ tick_count >= 2
  /\ Ticked(log, Root) /\ Ret(log, Root) = kError
  /\ CallbackErrorIn(log, Root)

\* ------------------------------------------------------------------------
\* C18  Lazy fault detection: for every structural fault that Validate()
\* reports on a node (null child reference, leaf without tick callback,
\* Inverter without exactly one child), the Tick of the unvalidated tree
\* yields Error from that node the first time the faulty node is ticked; in
\* particular a Sequence, Selector or Parallel that reaches a null child
\* reference returns Error.
\* ------------------------------------------------------------------------
\* The Tick of composite id in trace l came to its child slot i: slot 0, or
\* the slot after a child that let the scan go on in this Tick; for a
\* Parallel, any slot in the first Tick of the tree.
Reached(ns, l, id, i) ==
  IF ns[id].type_ = kParallel THEN tick_count = 1
  ELSE /\ ns[id].type_ \in {kSequence, kSelector}
       /\ \/ i = 0
          \/ /\ i - 1 \in KidsTicked(ns, l, id)
             /\ Ret(l, Kid(ns, id, i - 1)) =
                  IF ns[id].type_ = kSequence THEN kSuccess ELSE kFailure

C18_LazyFaultDetection ==
  \A id \in Nodes :
    Ticked(log, id) =>
      /\ Violates(nodes[id], kLeafMissingTick) => Ret(log, id) = kError
      /\ Violates(nodes[id], kInverterNotOneChild) => Ret(log, id) = kError
      /\ \A i \in KidSlots(nodes, id) :
           (Kid(nodes, id, i) = NULL /\ Reached(nodes, log, id, i)) =>
             Ret(log, id) = kError

\* ------------------------------------------------------------------------
\* C19  Tree manager Tick: each BehaviorTree::Tick() increments tick_count
\* by exactly one (starting from 0 at construction), ticks the root exactly
\* once, stores the root's returned status in last_status and returns that
\* same status; hence tick_count equals the number of Tick() calls made so
\* far.
\* ------------------------------------------------------------------------
\* Trace l is that of a Tick of the tree.
WasTick(l) == l # <<>> /\ l[1].ev = "tick"

ManagerTick ==
  /\ tick_count' = tick_count + 1
  /\ log'[1] = Ev("tick", Root, NoStatus)
  /\ Count(log', "tick", Root) = 1
  /\ log'[Len(log')] = Ev("ret", Root, last_status')
  /\ last_status' = Ret(log', Root)

C19_ManagerTick == (tick_count = 0) /\ [][WasTick(log') => ManagerTick]_vars

\* The state after the third Tick, in which the root returned Running.
C19_Witness ==
  /\ WasTick(log)
  /\ tick_count = 3
  /\ last_status = kRunning /\ Ret(log, Root) = kRunning

\* ------------------------------------------------------------------------
\* C20  Tree manager Reset: BehaviorTree::Reset() resets the whole root
\* subtree, sets last_status to Failure and leaves tick_count unchanged, so
\* that Ticks performed after a Reset continue counting from the previous
\* value.
\* ------------------------------------------------------------------------
ManagerReset ==
  /\ \A d \in Subtree(nodes, Root) : Idle(nodes'[d])
  /\ last_status' = kFailure
  /\ tick_count' = tick_count

\* A Tick that follows a Reset counts on from the value the Reset left.
CountsOn == tick_count' = tick_count + 1 /\ tick_count' >= 1

C20_ManagerReset ==
  [][/\ WasReset(log') => ManagerReset
     /\ (WasReset(log) /\ WasTick(log')) => CountsOn]_vars

\* The state after a Reset made after two Ticks, of which the second had
\* left the root Running.
C20_Witness ==
  /\ WasReset(log)
  /\ log[1] = Ev("reset", Root, kRunning)
  /\ tick_count = 2
  /\ last_status = kFailure

\* ------------------------------------------------------------------------
\* C21  Validation is side-effect free: Validate() and ValidateTree() (on a
\* node or through BehaviorTree) change no node's status, cursor, bitmasks
\* or configuration, change neither tick_count nor last_status, and invoke
\* no tick, on-enter or on-exit callback.
\* ------------------------------------------------------------------------
\* A step that made a validation call left everything else as it was; the
\* trace of callbacks and visits is as the last Tick or Reset left it.
ValidationFrame ==
  /\ nodes' = nodes
  /\ tick_count' = tick_count
  /\ last_status' = last_status
  /\ log' = log

C21_ValidationFrame == [][validated' # validated => ValidationFrame]_vars

\* A validated tree in the middle of a run: a node is Running with its
\* cursor past the first child.
C21_Witness ==
  /\ validated # NoCall
  /\ WasTick(log)
  /\ \E id \in Nodes :
       nodes[id].status_ = kRunning /\ nodes[id].current_child_ > 0

\* ------------------------------------------------------------------------
\* C22  Vacuous composites: every Tick of a Sequence with zero children
\* returns Success and every Tick of a Selector with zero children returns
\* Failure, in both cases invoking on-enter and on-exit once each.
\* ------------------------------------------------------------------------
\* How often a callback that is bound (or not) is invoked when it is due
\* once.
Once(bound) == IF bound THEN 1 ELSE 0

C22_VacuousComposites ==
  \A id \in Nodes :
    (nodes[id].type_ \in {kSequence, kSelector}
       /\ nodes[id].children_count_ = 0 /\ Ticked(log, id)) =>
      /\ Ret(log, id) = IF nodes[id].type_ = kSequence THEN kSuccess ELSE kFailure
      /\ Count(log, "enter", id) = Once(nodes[id].on_enter_)
      /\ Count(log, "exit", id) = Once(nodes[id].on_exit_)

\* A Sequence without children, with both callbacks bound, in its second
\* Tick or a later one.
C22_Witness ==
  \E id \in Nodes :
    /\ nodes[id].type_ = kSequence /\ nodes[id].children_count_ = 0
    /\ nodes[id].on_enter_ /\ nodes[id].on_exit_
    /\ Ticked(log, id) /\ tick_count >= 2
    /\ Ret(log, id) = kSuccess

\* ------------------------------------------------------------------------
\* C23  Fresh entry of Sequence/Selector: when a Sequence or Selector is
\* ticked while its status is not Running (after construction, after Reset,
\* or after any terminal result, one that stopped at an index i > 0
\* included), the scan starts at child 0, whatever cursor value the previous
\* execution left.
\* ------------------------------------------------------------------------
FreshScansFromZero(before, after, l) ==
  \A id \in Nodes :
    (before[id].type_ \in {kSequence, kSelector}
       /\ before[id].status_ # kRunning /\ Ticked(l, id)) =>
      /\ ScannedFrom(after, l, id, 0)
      /\ (before[id].children_count_ > 0 /\ Kid(before, id, 0) # NULL) =>
           /\ 0 \in KidsTicked(after, l, id)
           /\ l[Pos(l, "tick", id) + 1 + Once(before[id].on_enter_)] =
                Ev("tick", Kid(before, id, 0), NoStatus)

C23_FreshEntryScan ==
  [][IsTick => FreshScansFromZero(nodes, nodes', log')]_vars

\* The root, a Sequence, stopped at its second child with a Failure: its
\* cursor is 1 and its status is not Running, the state in which the next
\* Tick enters it afresh.
C23_Witness ==
  /\ nodes[Root].type_ = kSequence /\ Ticked(log, Root)
  /\ nodes[Root].current_child_ = 1 /\ nodes[Root].status_ = kFailure
  /\ tick_count < MaxTicks

\* ------------------------------------------------------------------------
\* C24  Fresh entry of Parallel: when a Parallel is ticked while its status
\* is not Running, both completion bitmasks are cleared before any child is
\* considered, so every child is ticked in that Tick and no outcome
\* remembered from a previous execution is counted.
\* ------------------------------------------------------------------------
\* The counters of a Tick of Parallel id in which every child was
\* considered: what the children returned in l, a null reference counting
\* as a failure.
CountedInTick(ns, l, id) ==
  LET slots == KidSlots(ns, id)
      got(i) == IF Kid(ns, id, i) = NULL THEN kFailure
                ELSE Ret(l, Kid(ns, id, i))
  IN  [running |-> Cardinality({i \in slots : got(i) = kRunning}),
       success |-> Cardinality({i \in slots : got(i) = kSuccess}),
       failure |-> Cardinality({i \in slots : got(i) \in {kFailure, kError}})]

\* The status that a policy gives to counters cnt.
PolicyStatus(policy, cnt) ==
  IF policy = kRequireAll
    THEN IF cnt.failure > 0 THEN kFailure
         ELSE IF cnt.running > 0 THEN kRunning ELSE kSuccess
    ELSE IF cnt.success > 0 THEN kSuccess
         ELSE IF cnt.running > 0 THEN kRunning ELSE kFailure

FreshParallelTicksAll(before, after, l) ==
  \A id \in Nodes :
    (before[id].type_ = kParallel /\ before[id].status_ # kRunning
       /\ Ticked(l, id)) =>
      /\ \A i \in KidSlots(before, id) :
           Kid(before, id, i) # NULL => Count(l, "tick", Kid(before, id, i)) = 1
      /\ Ret(l, id) =
           PolicyStatus(before[id].success_policy_, CountedInTick(after, l, id))
      /\ \A i \in KidSlots(before, id) :
           /\ TestBit(after[id].child_done_bits_, i) <=>
                (Kid(after, id, i) = NULL
                   \/ Ret(l, Kid(after, id, i)) \in Terminal)
           /\ TestBit(after[id].child_success_bits_, i) <=>
                (Kid(after, id, i) # NULL
                   /\ Ret(l, Kid(after, id, i)) = kSuccess)

C24_FreshEntryParallel ==
  [][IsTick => FreshParallelTicksAll(nodes, nodes', log')]_vars

\* The root, a Parallel, holds remembered outcomes and is not Running: the
\* state in which the next Tick enters it afresh.
C24_Witness ==
  /\ nodes[Root].type_ = kParallel /\ Ticked(log, Root)
  /\ nodes[Root].status_ \in Terminal
  /\ nodes[Root].child_done_bits_ # 0 /\ nodes[Root].child_success_bits_ # 0
  /\ tick_count < MaxTicks

\* ------------------------------------------------------------------------
\* C25  Status closure: for every node type, Tick returns one of Success,
\* Failure, Running, Error, and immediately after any Tick the node's
\* stored status equals the value that Tick returned (so the node is
\* Running exactly when its last Tick returned Running and no Reset
\* followed).
\* ------------------------------------------------------------------------
C25_StatusClosure ==
  /\ \A id \in Nodes :
       /\ nodes[id].status_ \in Status
       /\ Ticked(log, id) =>
            /\ Ret(log, id) \in Status
            /\ nodes[id].status_ = Ret(log, id)
  /\ last_status \in Status
  /\ WasReset(log) =>
       \A id \in Subtree(nodes, Root) : nodes[id].status_ # kRunning

\* A Tick in which a node of each of three types returned, and stored, a
\* different status: a Parallel Failure, an Inverter Error, and a leaf
\* Success.
C25_Witness ==
  \E a, b, c \in Nodes :
    /\ Ticked(log, a) /\ Ticked(log, b) /\ Ticked(log, c)
    /\ nodes[a].type_ = kParallel /\ nodes[a].status_ = kFailure
    /\ Ret(log, a) = kFailure /\ Ret(log, b) = kError /\ Ret(log, c) = kSuccess
    /\ nodes[b].type_ = kInverter /\ nodes[b].status_ = kError
    /\ IsLeafType(nodes[c].type_) /\ nodes[c].status_ = kSuccess

\* ------------------------------------------------------------------------
\* C26  Selector Running and Error handling: if child i of a Selector
\* returns Running, the Selector saves cursor i and returns Running, and the
\* next Tick resumes at child i without re-ticking the children with index
\* less than i (which had returned Failure); if child i returns Error, the
\* Selector returns Error and no child with index greater than i is ticked
\* in that Tick.
\* ------------------------------------------------------------------------
\* By what a ticked child returned in this Tick.
SelectorYields(after, l) ==
  \A id \in Nodes :
    (after[id].type_ = kSelector /\ Ticked(l, id)) =>
      \A i \in KidsTicked(after, l, id) :
        /\ Ret(l, Kid(after, id, i)) = kRunning =>
             /\ Ret(l, id) = kRunning
             /\ after[id].current_child_ = i
             /\ \A j \in KidsTicked(after, l, id) : j <= i
             /\ \A j \in KidsTicked(after, l, id) :
                  j < i => Ret(l, Kid(after, id, j)) = kFailure
        /\ Ret(l, Kid(after, id, i)) = kError =>
             /\ Ret(l, id) = kError
             /\ \A j \in KidsTicked(after, l, id) : j <= i

\* A Selector that is Running starts its next Tick with the child at the
\* cursor and ticks no child before it.
SelectorResumes(before, l) ==
  \A id \in Nodes :
    (before[id].type_ = kSelector /\ before[id].status_ = kRunning
       /\ Ticked(l, id)) =>
      LET i == before[id].current_child_ IN
      /\ i \in KidsTicked(before, l, id)
      /\ \A j \in KidsTicked(before, l, id) : j >= i
      /\ l[Pos(l, "tick", id) + 1] = Ev("tick", Kid(before, id, i), NoStatus)

C26_SelectorRunningError ==
  [][IsTick => SelectorYields(nodes', log') /\ SelectorResumes(nodes, log')]_vars

\* A later Tick in which an inner Selector ticked its second child only,
\* which returned Error, and the Selector over it returned Error without
\* ticking its own second child.
C26_Witness ==
  \E id \in Nodes :
    /\ nodes[id].type_ = kSelector /\ Ticked(log, id) /\ tick_count >= 2
    /\ KidsTicked(nodes, log, id) = {1}
    /\ Ret(log, Kid(nodes, id, 1)) = kError
    /\ Ret(log, id) = kError
    /\ nodes[Root].type_ = kSelector /\ Kid(nodes, Root, 0) = id
    /\ nodes[Root].children_count_ = 2 /\ Kid(nodes, Root, 1) # NULL
    /\ KidsTicked(nodes, log, Root) = {0}
    /\ Ret(log, Root) = kError

\* ------------------------------------------------------------------------
\* C27  Parallel in-cycle fan-out: in every Tick of a Parallel, every
\* child not yet marked done is ticked exactly once, in ascending index
\* order, before the policy is evaluated; a child returning Failure
\* (RequireAll) or Success (RequireOne) at index i does not keep the
\* children with a greater index from being ticked in the same Tick.
\* ------------------------------------------------------------------------
\* The done mask with which a Tick of Parallel id sets out, from the state
\* before the Tick.
DoneAtEntry(before, id) ==
  IF before[id].status_ = kRunning THEN before[id].child_done_bits_ ELSE 0

ParallelFansOut(before, after, l) ==
  \A id \in Nodes :
    (before[id].type_ = kParallel /\ Ticked(l, id)) =>
      LET live == {i \in KidSlots(before, id) :
                     Kid(before, id, i) # NULL
                       /\ ~TestBit(DoneAtEntry(before, id), i)}
      IN
      /\ KidsTicked(before, l, id) = live
      /\ \A i \in live :
           /\ Count(l, "tick", Kid(before, id, i)) = 1
           /\ Pos(l, "tick", id) < Pos(l, "tick", Kid(before, id, i))
           /\ Pos(l, "ret", Kid(before, id, i)) < Pos(l, "ret", id)
           /\ before[id].on_exit_ /\ Ret(l, id) \in Terminal =>
                Pos(l, "ret", Kid(before, id, i)) < Pos(l, "exit", id)
      /\ \A i, j \in live :
           i < j => Pos(l, "ret", Kid(before, id, i))
                      < Pos(l, "tick", Kid(before, id, j))

C27_ParallelFanOut == [][IsTick => ParallelFansOut(nodes, nodes', log')]_vars

\* A RequireAll Parallel whose first child failed and whose second child
\* was ticked after it, and a RequireOne Parallel likewise after a success.
C27_Witness ==
  \E id \in Nodes :
    /\ nodes[id].type_ = kParallel /\ Ticked(log, id)
    /\ KidsTicked(nodes, log, id) = {0, 1}
    /\ Ret(log, Kid(nodes, id, 0)) =
         IF nodes[id].success_policy_ = kRequireAll THEN kFailure ELSE kSuccess
    /\ Pos(log, "ret", Kid(nodes, id, 0)) < Pos(log, "tick", Kid(nodes, id, 1))

\* ------------------------------------------------------------------------
\* C28  Child list construction: the evaluation order of a node's children
\* is the order of its final child list, where AddChild appends one child
\* at the end (child count + 1), SetChildren(children, n) replaces the list
\* by the n given children in the given order, and SetChild replaces the
\* list by exactly one child however many children were attached before;
\* with the capacity assertions respected the child count never exceeds the
\* configured maximum.
\* ------------------------------------------------------------------------
\* The child list of a node: its first children_count_ references.
ChildList(nd) == [j \in 1 .. nd.children_count_ |-> nd.children_[j - 1]]

IsChildTick(e) == e.ev = "tick" /\ e.node # Root

\* The nodes other than the root that trace l ticked, in the order of their
\* ticks.
TickedInOrder(l) ==
  LET ticks == SelectSeq(l, IsChildTick) IN
  [k \in 1 .. Len(ticks) |-> ticks[k].node]

\* The first Tick evaluates the children in the order of the list: those it
\* ticked are the first of the list, in its order, the first child among
\* them.
EvaluatedInListOrder ==
  WasTick(log) =>
    LET list == ChildList(nodes[Root])
        done == TickedInOrder(log)
    IN  /\ Len(done) <= Len(list)
        /\ done = SubSeq(list, 1, Len(done))
        /\ list # <<>> => done # <<>>

ListWithinCapacity == nodes[Root].children_count_ <= kMaxChildren

\* What a build call makes of the list.
ListBuilt ==
  LET old == ChildList(nodes[Root])
      new == ChildList(nodes'[Root])
      call == log'[1].ev
      given == [k \in 1 .. Len(log') - 1 |-> log'[k + 1].node]
  IN  /\ call = "AddChild" =>
           /\ new = old \o given
           /\ Len(given) = 1
           /\ nodes'[Root].children_count_ = nodes[Root].children_count_ + 1
      /\ call = "SetChildren" => new = given
      /\ call = "SetChild" => new = given /\ Len(new) = 1

C28_ChildListConstruction ==
  /\ [](EvaluatedInListOrder /\ ListWithinCapacity)
  /\ [][log' # <<>> => ListBuilt]_vars

\* A Sequence filled to capacity with both leaves, the first two children
\* differing, whose first Tick ticked all of them in the order of the list.
C28_Witness ==
  /\ WasTick(log)
  /\ nodes[Root].children_count_ = kMaxChildren
  /\ TickedInOrder(log) = ChildList(nodes[Root])
  /\ nodes[Root].children_[0] # nodes[Root].children_[1]

\* ------------------------------------------------------------------------
\* C29  Abandoned Running children are not reset: when a Parallel returns a
\* terminal status in a Tick in which child c returned Running, c's status
\* stays Running and its cursor and bitmasks are untouched; on the next
\* Tick of the Parallel (a fresh entry) c is ticked again as a continuation
\* of its old execution: c's on-enter is not invoked and a Sequence or
\* Selector c resumes at its saved cursor rather than at child 0.
\* ------------------------------------------------------------------------
\* Node c holds what its own Tick in l, which returned Running, left: the
\* Running status, the cursor at the child that returned Running, the done
\* bits of exactly the children that are null or have returned a terminal
\* status.
HoldsOwnProgress(after, l, c) ==
  /\ after[c].status_ = kRunning
  /\ after[c].type_ \in {kSequence, kSelector} =>
       /\ after[c].current_child_ \in KidsTicked(after, l, c)
       /\ Ret(l, Kid(after, c, after[c].current_child_)) = kRunning
  /\ after[c].type_ = kParallel =>
       \A i \in KidsTicked(after, l, c) :
         TestBit(after[c].child_done_bits_, i) <=>
           Ret(l, Kid(after, c, i)) \in Terminal

\* The Tick in which a Parallel gives up children that are Running.
ParallelAbandons(after, l) ==
  \A id \in Nodes :
    (after[id].type_ = kParallel /\ Ticked(l, id) /\ Ret(l, id) \in Terminal) =>
      \A i \in KidsTicked(after, l, id) :
        Ret(l, Kid(after, id, i)) = kRunning =>
          HoldsOwnProgress(after, l, Kid(after, id, i))

\* The fresh entry of a Parallel that has a child still Running.
AbandonedContinues(before, l) ==
  \A id \in Nodes :
    (before[id].type_ = kParallel /\ before[id].status_ # kRunning
       /\ Ticked(l, id)) =>
      \A i \in KidSlots(before, id) :
        LET c == Kid(before, id, i) IN
        (c # NULL /\ before[c].status_ = kRunning) =>
          /\ Count(l, "tick", c) = 1
          /\ Count(l, "enter", c) = 0
          /\ before[c].type_ \in {kSequence, kSelector} =>
               /\ \A j \in KidsTicked(before, l, c) :
                    j >= before[c].current_child_
               /\ l[Pos(l, "tick", c) + 1] =
                    Ev("tick", Kid(before, c, before[c].current_child_),
                       NoStatus)

C29_AbandonedChildContinues ==
  [][IsTick => ParallelAbandons(nodes', log')
               /\ AbandonedContinues(nodes, log')]_vars

\* A later Tick that entered the root, a Parallel, afresh (its on-enter
\* ran) and in which its first child, a Sequence or Selector with on-enter
\* bound, was ticked without entering and went on at its second child.
C29_Witness ==
  LET c == Kid(nodes, Root, 0) IN
  /\ tick_count >= 2
  /\ nodes[Root].type_ = kParallel /\ Ticked(log, Root)
  /\ Count(log, "enter", Root) = 1
  /\ nodes[Root].children_count_ > 0 /\ c # NULL
  /\ nodes[c].type_ \in {kSequence, kSelector} /\ nodes[c].on_enter_
  /\ Ticked(log, c) /\ Count(log, "enter", c) = 0
  /\ KidsTicked(nodes, log, c) = {1}

\* ------------------------------------------------------------------------
\* C30  Enter/exit balance: in any sequence of Tick calls on the root with
\* no Reset, for every node the number of on-enter invocations minus the
\* number of on-exit invocations is always 0 or 1, and it is 1 exactly when
\* the node's status is Running; a Reset issued while a node is Running
\* breaks this balance, because the next Tick invokes on-enter again with
\* no on-exit in between.
\* ------------------------------------------------------------------------
\* The nodes whose invocations can be counted: both callbacks are bound.
Hooked(ns) == {id \in Nodes : ns[id].on_enter_ /\ ns[id].on_exit_}

\* A Tick changes the balance of every node by what its status changes:
\* up by one when the node becomes Running, down by one when it stops
\* being Running, and the node enters and exits at most once.
BalanceFollowsStatus(before, after, l) ==
  \A id \in Hooked(before) :
    /\ Count(l, "enter", id) <= 1
    /\ Count(l, "exit", id) <= 1
    /\ Count(l, "enter", id) - Count(l, "exit", id) =
         Once(after[id].status_ = kRunning) - Once(before[id].status_ = kRunning)

\* A Reset takes a Running node out of Running without invoking on-exit, so
\* the node's next entry invokes on-enter a second time.
ResetSkipsExit(after, l) ==
  \A id \in Hooked(after) :
    /\ Count(l, "enter", id) = 0 /\ Count(l, "exit", id) = 0
    /\ id \in WereAt(l, kRunning) => after[id].status_ # kRunning

C30_EnterExitBalance ==
  /\ \A id \in Nodes : nodes[id].status_ # kRunning
  /\ [][/\ IsTick => BalanceFollowsStatus(nodes, nodes', log')
        /\ WasReset(log') /\ ~IsTick => ResetSkipsExit(nodes', log')]_vars

\* A Reset reached a node with both callbacks bound while it was Running,
\* and another Tick can follow.
C30_Witness ==
  /\ WasReset(log)
  /\ WereAt(log, kRunning) \cap Hooked(nodes) # {}
  /\ tick_count < MaxTicks

\* ------------------------------------------------------------------------
\* C31  Callback nesting order: within one Tick of a Sequence, Selector,
\* Parallel or valid Inverter, the node's own on-enter (if it fires) is
\* invoked before any child is ticked and before any descendant callback,
\* and the node's own on-exit (if it fires) is invoked after the last child
\* tick and after every descendant callback of that Tick.
\* ------------------------------------------------------------------------
\* Where in l the descendants of node id were ticked, returned or had a
\* callback invoked.
DescendantEvents(ns, l, id) ==
  {k \in DOMAIN l : l[k].node \in Subtree(ns, id) \ {id}}

CallbacksNest(ns, l) ==
  \A id \in Nodes :
    (ns[id].type_ \in {kSequence, kSelector, kParallel, kInverter}
       /\ Ticked(l, id)) =>
      LET inner == DescendantEvents(ns, l, id) IN
      /\ Count(l, "enter", id) > 0 =>
           /\ Pos(l, "enter", id) = Pos(l, "tick", id) + 1
           /\ \A k \in inner : Pos(l, "enter", id) < k
      /\ Count(l, "exit", id) > 0 =>
           /\ Pos(l, "exit", id) = Pos(l, "ret", id) - 1
           /\ \A k \in inner : k < Pos(l, "exit", id)
      /\ \A k \in inner : Pos(l, "tick", id) < k /\ k < Pos(l, "ret", id)

C31_CallbackNesting == WasTick(log) => CallbacksNest(nodes, log)

\* A Tick in which the root and its first child, both branches, entered and
\* exited, and a leaf under that child entered, ran and exited.
C31_Witness ==
  LET c == Kid(nodes, Root, 0) IN
  /\ WasTick(log)
  /\ Count(log, "enter", Root) = 1 /\ Count(log, "exit", Root) = 1
  /\ nodes[Root].children_count_ > 0 /\ c # NULL
  /\ ~IsLeafType(nodes[c].type_)
  /\ Count(log, "enter", c) = 1 /\ Count(log, "exit", c) = 1
  /\ \E g \in Subtree(nodes, c) \ {c} :
       /\ Count(log, "enter", g) = 1 /\ Count(log, "cb", g) = 1
       /\ Count(log, "exit", g) = 1

\* ------------------------------------------------------------------------
\* C32  Bounded work per tick: in a tree in which no node is the child of
\* two parents and there is no cycle, one Tick of the root ticks every node
\* at most once and invokes every leaf callback at most once, so the Tick
\* completes after a number of node dispatches bounded by the number of
\* nodes.
\* ------------------------------------------------------------------------
\* The node dispatches of trace l.
Dispatches(l) == {k \in DOMAIN l : l[k].ev = "tick"}

\* The parents of node id: the nodes of the tree holding a reference to it.
Parents(ns, id) ==
  {p \in Subtree(ns, Root) : \E i \in KidSlots(ns, p) : Kid(ns, p, i) = id}

\* No node is the child of two parents or twice the child of one, and the
\* root is nobody's child (so that no reference chain is a cycle).
IsTree(ns) ==
  /\ Parents(ns, Root) = {}
  /\ \A id \in Subtree(ns, Root) :
       /\ Cardinality(Parents(ns, id)) <= 1
       /\ \A p \in Parents(ns, id) :
            Cardinality({i \in KidSlots(ns, p) : Kid(ns, p, i) = id}) = 1

C32_BoundedWork ==
  (WasTick(log) /\ IsTree(nodes)) =>
    /\ \A id \in Nodes :
         /\ Count(log, "tick", id) <= 1
         /\ Count(log, "cb", id) <= 1
         /\ Count(log, "ret", id) = Count(log, "tick", id)
    /\ Cardinality(Dispatches(log)) <= Cardinality(Subtree(nodes, Root))
    /\ log[Len(log)] = Ev("ret", Root, last_status)

\* A Tick of a tree of five nodes, two levels deep, that dispatched every
\* one of them.
C32_Witness ==
  /\ WasTick(log) /\ IsTree(nodes)
  /\ Cardinality(Subtree(nodes, Root)) = 5
  /\ Cardinality(Dispatches(log)) = 5
  /\ \E c \in Subtree(nodes, Root) \ {Root} : nodes[c].children_count_ = 2

\* ------------------------------------------------------------------------
\* C33  Eventual resolution: in a structurally valid finite tree, if every
\* leaf callback returns Running at most finitely many times in a row, then
\* a driver that keeps ticking the root (without Reset) eventually obtains
\* a terminal root status (Success, Failure or Error); the root cannot stay
\* Running forever.
\* ------------------------------------------------------------------------
\* The last Tick invoked the tick callback of leaf id.
Invoked(id) == Count(log, "cb", id) > 0

\* The last Tick invoked the tick callback of leaf id, which returned a
\* terminal status.
Settled(id) ==
  \E k \in DOMAIN log :
    log[k].ev = "cb" /\ log[k].node = id /\ log[k].st \in Terminal

\* No leaf callback returns Running forever: one that is invoked again and
\* again returns a terminal status again and again.
LeavesSettle ==
  \A id \in Nodes \ {Root} : <>[]~Invoked(id) \/ []<>Settled(id)

\* The root's Ticks return a terminal status again and again: the driver
\* obtains one, and after every Running there is another.
C33_EventualResolution ==
  LeavesSettle => []<>(WasTick(log) /\ last_status \in Terminal)

\* A Tick that the root, Running until then, ended with a terminal status.
C33_Witness ==
  /\ WasTick(log) /\ last_status \in Terminal
  /\ nodes[Root].on_enter_ /\ Count(log, "enter", Root) = 0
  /\ Count(log, "exit", Root) = 1

\* ------------------------------------------------------------------------
\* C34  Bitmask consistency: in every reachable state of every node, the
\* success bitmask is a subset of the done bitmask, both masks only have
\* bits at indices below the node's child count, and both masks are 0 for
\* every node that has never been ticked as a Parallel.
\* ------------------------------------------------------------------------
\* The indices below the child capacity whose bits are set in a bitmask.
BitsOf(bits) == {i \in 0 .. (kMaxChildren - 1) : TestBit(bits, i)}

NoBits(nd) == nd.child_done_bits_ = 0 /\ nd.child_success_bits_ = 0

BitmasksConsistent ==
  \A id \in Nodes :
    /\ BitsOf(nodes[id].child_success_bits_) \subseteq
         BitsOf(nodes[id].child_done_bits_)
    /\ nodes[id].child_done_bits_ < Shl(nodes[id].children_count_)
    /\ nodes[id].child_success_bits_ < Shl(nodes[id].children_count_)
    /\ nodes[id].type_ # kParallel => NoBits(nodes[id])

\* A step leaves the masks of a node at 0 unless it is a Tick that ticks
\* the node as a Parallel.
BitsNeedParallelTick ==
  \A id \in Nodes :
    (NoBits(nodes[id]) /\ ~NoBits(nodes'[id])) =>
      /\ IsTick /\ Ticked(log', id)
      /\ nodes[id].type_ = kParallel

C34_BitmaskConsistency ==
  /\ \A id \in Nodes : NoBits(nodes[id])
  /\ []BitmasksConsistent
  /\ [][BitsNeedParallelTick]_vars

\* A Parallel whose first child, a branch, has failed and whose second
\* child has succeeded.
C34_Witness ==
  \E id \in Nodes :
    /\ nodes[id].type_ = kParallel
    /\ BitsOf(nodes[id].child_done_bits_) = {0, 1}
    /\ BitsOf(nodes[id].child_success_bits_) = {1}
    /\ ~IsLeafType(nodes[Kid(nodes, id, 0)].type_)

\* ------------------------------------------------------------------------
\* C35  Manager/root agreement: when the tree is driven only through
\* BehaviorTree::Tick() and BehaviorTree::Reset(), last_status() equals
\* root().status() in every reachable state, including the initial state
\* (both Failure) and the state after Reset (both Failure).
\* ------------------------------------------------------------------------
C35_ManagerRootAgreement ==
  /\ last_status = nodes[Root].status_
  /\ (tick_count = 0 \/ WasReset(log)) => last_status = kFailure

\* The state after the Reset of a tree whose root was Running.
C35_Witness ==
  /\ WasReset(log) /\ tick_count >= 1
  /\ Root \in WereAt(log, kRunning)
  /\ last_status = kFailure /\ nodes[Root].status_ = kFailure

\* ------------------------------------------------------------------------
\* C36  Vacuous Parallel: every Tick of a Parallel with zero children
\* returns Success under RequireAll and Failure under RequireOne, and never
\* Running.
\* ------------------------------------------------------------------------
C36_VacuousParallel ==
  \A id \in Nodes :
    (nodes[id].type_ = kParallel /\ nodes[id].children_count_ = 0
       /\ WasTick(log) /\ Ticked(log, id)) =>
      /\ Ret(log, id) =
           (IF nodes[id].success_policy_ = kRequireAll THEN kSuccess
            ELSE kFailure)
      /\ nodes[id].status_ # kRunning
      /\ KidsTicked(nodes, log, id) = {}

\* A later Tick of a tree holding a RequireOne Parallel without children
\* under a root that ticked it: it failed.
C36_Witness ==
  \E id \in Nodes \ {Root} :
    /\ nodes[id].type_ = kParallel /\ nodes[id].children_count_ = 0
    /\ nodes[id].success_policy_ = kRequireOne
    /\ tick_count >= 2 /\ WasTick(log) /\ Ticked(log, id)
    /\ Ret(log, id) = kFailure

\* ------------------------------------------------------------------------
\* C37  Running cursor invariant: when the tree is driven only by Tick and
\* Reset on the root, every Sequence or Selector whose status is Running
\* has cursor < child count and the child at the cursor has status Running,
\* and every Inverter whose status is Running has its child in status
\* Running.
\* ------------------------------------------------------------------------
\* Child i of node id is there and is Running.
KidRunning(ns, id, i) ==
  /\ i < ns[id].children_count_
  /\ Kid(ns, id, i) # NULL
  /\ ns[Kid(ns, id, i)].status_ = kRunning

C37_RunningCursor ==
  \A id \in Nodes :
    nodes[id].status_ = kRunning =>
      /\ nodes[id].type_ \in {kSequence, kSelector} =>
           KidRunning(nodes, id, nodes[id].current_child_)
      /\ nodes[id].type_ = kInverter =>
           nodes[id].children_count_ = 1 /\ KidRunning(nodes, id, 0)

\* The root, an Inverter, is Running over a Sequence or Selector that is
\* Running at its second child.
C37_Witness ==
  LET c == Kid(nodes, Root, 0) IN
  /\ nodes[Root].type_ = kInverter /\ nodes[Root].status_ = kRunning
  /\ c # NULL /\ nodes[c].type_ \in {kSequence, kSelector}
  /\ nodes[c].status_ = kRunning /\ nodes[c].current_child_ = 1

\* ------------------------------------------------------------------------
\* C38  Sequence/Selector duality: for every list of children (including
\* the empty list) and every sequence of child outcomes over successive
\* Ticks, a Selector over c1..cn returns on each Tick the same status, and
\* ticks the same children in the same order, as an Inverter over a
\* Sequence over Inverter(c1)..Inverter(cn).
\* ------------------------------------------------------------------------
\* What trace l did to the leaves base + 1, base + 2, ..., in order: for
\* each event of a leaf, which leaf, what event and with what status.
LeafTrace(l, base) ==
  LET IsLeafEv(e) == \E k \in 1 .. MaxDualKids : e.node = base + k
      evs == SelectSeq(l, IsLeafEv)
  IN  [j \in 1 .. Len(evs) |-> [evs[j] EXCEPT !.node = @ - base]]

C38_Duality ==
  WasTick(log) =>
    /\ Ret(log, Root) = Ret(log, DualRoot)
    /\ LeafTrace(log, SelectorLeaf(0)) = LeafTrace(log, DualLeaf(0))
    /\ \A k \in 1 .. MaxDualKids :
         nodes[SelectorLeaf(k)] = nodes[DualLeaf(k)]

\* A later Tick in which both trees, Running until then, went on at their
\* second leaf, which failed: both returned Failure.
C38_Witness ==
  /\ tick_count >= 2 /\ WasTick(log)
  /\ Count(log, "enter", Root) = 0 /\ Count(log, "enter", DualRoot) = 0
  /\ ~Ticked(log, SelectorLeaf(1)) /\ ~Ticked(log, DualLeaf(1))
  /\ Ret(log, SelectorLeaf(2)) = kFailure /\ Ret(log, DualLeaf(2)) = kFailure
  /\ Ret(log, Root) = kFailure /\ Ret(log, DualRoot) = kFailure

\* ------------------------------------------------------------------------
\* C39  Reset restores the initial state: after Reset() on the root,
\* reached from any state, the engine state of every node (status, cursor,
\* both bitmasks) equals that of a freshly constructed tree with the same
\* configuration, so given the same subsequent leaf outcomes the reset tree
\* and a fresh tree produce the same statuses, child tick order and
\* on-enter/on-exit invocations on every Tick.
\* ------------------------------------------------------------------------
\* Node id of ns constructed anew: as its constructor leaves it, then
\* given the type, callbacks, policy and children it has in ns.
FreshNode(ns, id) ==
  [NewNode EXCEPT !.type_ = ns[id].type_,
                  !.tick_ = ns[id].tick_,
                  !.on_enter_ = ns[id].on_enter_,
                  !.on_exit_ = ns[id].on_exit_,
                  !.success_policy_ = ns[id].success_policy_,
                  !.children_count_ = ns[id].children_count_,
                  !.children_ = ns[id].children_]

\* The tree constructed anew with the configuration of ns (the nodes are
\* numbered from 1, so that the tree is a sequence of nodes).
FreshTree(ns) == [id \in DOMAIN ns |-> FreshNode(ns, id)] \o <<>>

\* What a Tick of the root of ns can do, by the outcomes of the leaves:
\* the trace, the status returned and the tree it leaves.
RootTicks(ns) == Tick(Root, [nodes |-> ns, log |-> <<>>, ret |-> kFailure])

\* After a Reset the tree is the fresh tree of its configuration, one of
\* the trees the driver starts with, and the manager reports Failure as
\* it does at the start; so the next Tick does to it what it does to the
\* fresh tree, and leaves the same tree for the Ticks after it.
C39_ResetRestoresInitial ==
  WasReset(log) =>
    /\ nodes = FreshTree(nodes)
    /\ nodes \in Trees
    /\ last_status = kFailure
    /\ RootTicks(nodes) = RootTicks(FreshTree(nodes))

\* The state after a Reset that found the root and one more node Running,
\* at least two Ticks into the run, with another Tick to follow.
C39_Witness ==
  /\ WasReset(log) /\ tick_count >= 2 /\ tick_count < MaxTicks
  /\ Root \in WereAt(log, kRunning)
  /\ Cardinality(WereAt(log, kRunning)) >= 2
  /\ nodes = FreshTree(nodes)

====
